---------------------------- MODULE Spec2Model ----------------------------
(***************************************************************************)
(* The Lilac mesh loader (src/util/lilac_mesh/lilac_mesh.c) as a state     *)
(* machine.  lilac_mesh_new is one sequential process; every call of       *)
(* snparser_read is one step of it.  The Shastina tokenizer is outside the *)
(* repository: it is modelled as the source of the entities, drawn from    *)
(* the bounded families of files described under "Input source".          *)
(***************************************************************************)
EXTENDS Integers, Sequences, FiniteSets

(***************************************************************************)
(* Program constants                                                       *)
(***************************************************************************)
MAX_SN_STACK == 16
LILAC_MESH_MAX_C == 16384
LILAC_MESH_MAX_POINTS == 1024
LILAC_MESH_MAX_TRIS == 1024

LILAC_MESH_ERR_OK == 0
LILAC_MESH_ERR_REM == 1
LILAC_MESH_ERR_PUNDEF == 2
LILAC_MESH_ERR_TUNDEF == 3
LILAC_MESH_ERR_ORPHAN == 4
LILAC_MESH_ERR_ETYPE == 5
LILAC_MESH_ERR_NUMBER == 6
LILAC_MESH_ERR_OVERFL == 7
LILAC_MESH_ERR_BADOP == 8
LILAC_MESH_ERR_UNDERF == 9
LILAC_MESH_ERR_NOSIG == 10
LILAC_MESH_ERR_SIGVER == 11
LILAC_MESH_ERR_NODIM == 12
LILAC_MESH_ERR_BADDIM == 13
LILAC_MESH_ERR_DIMVAL == 14
LILAC_MESH_ERR_PCOUNT == 15
LILAC_MESH_ERR_TCOUNT == 16
LILAC_MESH_ERR_NORMDA == 17
LILAC_MESH_ERR_NORM2P == 18
LILAC_MESH_ERR_PTOVER == 19
LILAC_MESH_ERR_PTREF == 20
LILAC_MESH_ERR_VXDUP == 21
LILAC_MESH_ERR_VXORD == 22
LILAC_MESH_ERR_ORIENT == 23
LILAC_MESH_ERR_TRSORT == 24
LILAC_MESH_ERR_DUPEDG == 25
LILAC_MESH_ERR_TROVER == 26

\* lilacme2png.c
INTER_UNDEF == 0
INTER_SCALAR == 1
INTER_VECTOR == 2
VMODE_UNDEF == 0
VMODE_X == 1
VMODE_Y == 2
VMODE_3D == 3

\* LONG_MAX of <limits.h> on a target whose long has 32 bits.
LONG_MAX == 2147483647

\* ent.status of an entity: zero is end of input, the entity kinds are
\* positive, tokenizer errors are negative (the loop of lilac_mesh_new runs
\* while ent.status > 0 and reports ent.status < 0 as the error code).
SNENTITY ==
  [EOF |-> 0, STRING |-> 1, BEGIN_META |-> 3, END_META |-> 4,
   META_TOKEN |-> 5, NUMERIC |-> 7, OPERATION |-> 15]

(***************************************************************************)
(* Bounds of the model                                                     *)
(***************************************************************************)
\* Family "quad": the largest number of point records a file holds.
MaxQuadPts == 5
\* Family "free": the largest number of point records a file holds.
MaxFreePts == 3
\* The largest triangle count a header declares (besides the limit values).
MaxTris == 3
\* The largest point index a triangle record names.
MaxIdx == 4
\* Family "stack": the number of point records a file holds at most.
MaxStackPts == 3
\* Family "fan": the largest number of points of a fan.
MaxFanPts == 33
\* The longest token over ParseAlphabet that parseNumber is called with.
MaxParseLen == 5
\* The largest number of points a usage map is dimensioned for by itself.
MaxMapPts == 6
\* The number of calls of usage_map_edge made on one usage map by itself.
MaxEdgeCalls == 3
\* The largest number of points a usage map is dimensioned for when only
\* usage_map_point is called on it.
MaxSweepPts == 65
\* Width and height of the buffer the rasterizer is called on by itself.
FillW == 3
FillH == 3
\* Width and height of the image main renders.
RenderW == 4
RenderH == 4

VARIABLES
  pc,              \* position of lilac_mesh_new: the next read, or "done"
  src,             \* the input source: family, record being read, fields read
  lineno,          \* the tokenizer's line counter (snparser_count)
  i_pts,           \* readHeader: i_pts
  i_tris,          \* readHeader: i_tris
  point_count,     \* lilac_mesh_new: point_count
  tri_count,       \* lilac_mesh_new: tri_count
  points_written,
  tris_written,
  st,              \* the interpreter stack st[0 .. st_count-1]
  pM,              \* the LILAC_MESH structure *pM, NullMesh while pM is NULL
  um,              \* the USAGE_MAP
  status,          \* status of lilac_mesh_new: 1 running or success, 0 failed
  errCode,         \* *pErrCode
  line,            \* *pLine
  call,            \* the last op_p or op_t call: its operands, the state it
                   \* was given, what it returned, and whether the last
                   \* point so far was written after a triangle
  hdr,             \* the entities readHeader has read, in order
  rd,              \* the last read: where, the entity, the line count after
                   \* it, and the stack and mesh the entity was handled with
  msg,             \* main: what was printed for a failed load
  pn,              \* a call of parseNumber: pstr, the position in it, result
  uh,              \* the calls of usage_map_edge made on um, in order
  m_inter,         \* lilacme2png.c: m_inter
  m_vmode,         \* lilacme2png.c: m_vmode
  m_w,             \* lilacme2png.c: m_w
  m_h,             \* lilacme2png.c: m_h
  pBuf,            \* lilacme2png.c: the pixel buffer, empty while NULL
  pva,             \* main of lilacme2png.c: the converted vertices
  ren              \* main of lilacme2png.c: its position, and what each
                   \* call of the rasterizer wrote

loaderVars ==
  <<pc, src, lineno, i_pts, i_tris, point_count, tri_count, points_written,
    tris_written, st, pM, um, status, errCode, line, call, hdr, rd, msg>>

parseVars == <<pn>>

mapVars == <<uh>>

renderVars == <<m_inter, m_vmode, m_w, m_h, pBuf, pva, ren>>

vars == <<loaderVars, parseVars, mapVars, renderVars>>

(***************************************************************************)
(* 32-bit words.  A uint32_t is the set of its one bits, each named by its *)
(* shift; UINT32_C(1) << shift is {shift}, | is union, & is intersection   *)
(* and ~ is the complement within 0 .. 31.                                 *)
(***************************************************************************)
Bits32 == 0 .. 31

Shl1(shift) == {shift}

BitNot(w) == Bits32 \ w

\* (UINT32_C(1) << k) - 1: the k low bits
LowMask(k) == {b \in Bits32 : b < k}

\* calloc(count, sizeof(uint32_t)); NULL (no words) is the empty array
CallocWords(count) == [o \in 0 .. (count - 1) |-> {}]

(***************************************************************************)
(* USAGE_MAP                                                               *)
(***************************************************************************)
usage_map_init == [pPointUse |-> CallocWords(0), pEdgeUse |-> CallocWords(0),
                   point_count |-> 0]

usage_map_dim(n) ==
  IF n > 0
    THEN LET count == (n \div 32) + (IF n % 32 # 0 THEN 1 ELSE 0)
             mcount == n * n
             ecount == (mcount \div 32) + (IF mcount % 32 # 0 THEN 1 ELSE 0)
         IN  [pPointUse |-> CallocWords(count),
              pEdgeUse |-> CallocWords(ecount),
              point_count |-> n]
    ELSE usage_map_init

\* The parameter check of usage_map_point and usage_map_edge: abort() if not
IndexOk(m, i) == (i >= 0) /\ (i < m.point_count)

\* Mutant of usage_map_point: the bits of a word are counted from the least
\* significant one
usage_map_point_lsb(m, i) ==
  LET offs == i \div 32
      shift == i % 32
      mask == Shl1(shift)
  IN  [m EXCEPT !.pPointUse[offs] = @ \cup mask]

usage_map_point(m, i) ==
  LET offs == i \div 32
      shift == 31 - (i % 32)
      mask == Shl1(shift)
  IN  [m EXCEPT !.pPointUse[offs] = @ \cup mask]

\* Mutant of usage_map_edge: the bit is tested but never set
usage_map_edge_nomark(m, i1, i2) ==
  LET ix == (i1 * m.point_count) + i2
      offs == ix \div 32
      shift == 31 - (ix % 32)
      mask == Shl1(shift)
  IN  IF (m.pEdgeUse[offs] \cap mask) # {}
        THEN [status |-> 0, um |-> m]
        ELSE [status |-> 1, um |-> m]

\* Mutant of usage_map_edge: the bit is that of the undirected edge
usage_map_edge_undirected(m, i1, i2) ==
  LET ix == IF i1 < i2 THEN (i1 * m.point_count) + i2
                       ELSE (i2 * m.point_count) + i1
      offs == ix \div 32
      shift == 31 - (ix % 32)
      mask == Shl1(shift)
  IN  IF (m.pEdgeUse[offs] \cap mask) # {}
        THEN [status |-> 0, um |-> m]
        ELSE [status |-> 1, um |-> [m EXCEPT !.pEdgeUse[offs] = @ \cup mask]]

\* [status, um]: status 1 and the bit set, or status 0 and nothing changed
usage_map_edge(m, i1, i2) ==
  LET ix == (i1 * m.point_count) + i2
      offs == ix \div 32
      shift == 31 - (ix % 32)
      mask == Shl1(shift)
  IN  IF (m.pEdgeUse[offs] \cap mask) # {}
        THEN [status |-> 0, um |-> m]
        ELSE [status |-> 1, um |-> [m EXCEPT !.pEdgeUse[offs] = @ \cup mask]]

\* Mutant of usage_map_orphan: only the last, partial word is examined
usage_map_orphan_lastword(m) ==
  IF m.point_count > 0
    THEN LET full_count == m.point_count \div 32
             extra_bits == m.point_count % 32
             mask == IF extra_bits > 0 THEN LowMask(32 - extra_bits) ELSE {}
         IN  IF (extra_bits > 0)
                  /\ (BitNot(m.pPointUse[full_count] \cup mask) # {})
               THEN 1
               ELSE 0
    ELSE 0

\* Mutant of usage_map_orphan: the mask of the unused bits is one bit too wide
usage_map_orphan_widemask(m) ==
  IF m.point_count > 0
    THEN LET full_count == m.point_count \div 32
             extra_bits == m.point_count % 32
             mask == IF extra_bits > 0 THEN LowMask(33 - extra_bits) ELSE {}
             inFull == \E i \in 0 .. (full_count - 1) :
                          BitNot(m.pPointUse[i]) # {}
         IN  IF inFull
               THEN 1
               ELSE IF (extra_bits > 0)
                         /\ (BitNot(m.pPointUse[full_count] \cup mask) # {})
                      THEN 1
                      ELSE 0
    ELSE 0

\* Mutant of usage_map_orphan: a map for no points reports an orphan
usage_map_orphan_empty(m) ==
  IF m.point_count > 0
    THEN LET full_count == m.point_count \div 32
             extra_bits == m.point_count % 32
             mask == IF extra_bits > 0 THEN LowMask(32 - extra_bits) ELSE {}
             inFull == \E i \in 0 .. (full_count - 1) :
                          BitNot(m.pPointUse[i]) # {}
         IN  IF inFull
               THEN 1
               ELSE IF (extra_bits > 0)
                         /\ (BitNot(m.pPointUse[full_count] \cup mask) # {})
                      THEN 1
                      ELSE 0
    ELSE 1

usage_map_orphan(m) ==
  IF m.point_count > 0
    THEN LET full_count == m.point_count \div 32
             extra_bits == m.point_count % 32
             mask == IF extra_bits > 0 THEN LowMask(32 - extra_bits) ELSE {}
             inFull == \E i \in 0 .. (full_count - 1) :
                          BitNot(m.pPointUse[i]) # {}
         IN  IF inFull
               THEN 1
               ELSE IF (extra_bits > 0)
                         /\ (BitNot(m.pPointUse[full_count] \cup mask) # {})
                      THEN 1
                      ELSE 0
    ELSE 0

(***************************************************************************)
(* parseNumber.  A string is the sequence of its character codes.          *)
(***************************************************************************)
\* Mutant of parseDigits: a value above LILAC_MESH_MAX_C is not rejected
RECURSIVE parseDigits_nolimit(_, _, _)
parseDigits_nolimit(pstr, k, result) ==
  IF k > Len(pstr)
    THEN result
    ELSE LET c == pstr[k]
         IN  IF (c < 48) \/ (c > 57)
               THEN -1
               ELSE parseDigits_nolimit(pstr, k + 1, (result * 10) + (c - 48))

RECURSIVE parseDigits(_, _, _)
parseDigits(pstr, k, result) ==
  IF k > Len(pstr)
    THEN result
    ELSE LET c == pstr[k]
         IN  IF (c < 48) \/ (c > 57)
               THEN -1
               ELSE LET r == (result * 10) + (c - 48)
                    IN  IF r > LILAC_MESH_MAX_C
                          THEN -1
                          ELSE parseDigits(pstr, k + 1, r)

\* Mutant of parseNumber: a value above LILAC_MESH_MAX_C is returned as it is
parseNumber_nolimit(pstr) ==
  IF Len(pstr) = 0 THEN -1 ELSE parseDigits_nolimit(pstr, 1, 0)

parseNumber(pstr) ==
  IF Len(pstr) = 0 THEN -1 ELSE parseDigits(pstr, 1, 0)

(***************************************************************************)
(* LILAC_MESH.  The arrays are indexed from 0 as in C; pTris holds three   *)
(* entries per triangle.  calloc clears both arrays to zero.               *)
(***************************************************************************)
ZeroPoint == [normd |-> 0, norma |-> 0, x |-> 0, y |-> 0]

\* The value of *pM while the pointer pM is NULL (never read by the code)
NullMesh == [alloc |-> FALSE, point_count |-> 0, tri_count |-> 0,
             pPoints |-> <<>>, pTris |-> <<>>]

NewMesh(pcount, tcount) ==
  [alloc |-> TRUE, point_count |-> pcount, tri_count |-> tcount,
   pPoints |-> [i \in 0 .. (pcount - 1) |-> ZeroPoint],
   pTris |-> [i \in 0 .. ((tcount * 3) - 1) |-> 0]]

(***************************************************************************)
(* op_p                                                                    *)
(***************************************************************************)
\* The parameter check of op_p and op_t: abort() if not
ArgOk(v) == (v >= 0) /\ (v <= LILAC_MESH_MAX_C)

\* Mutant of PointFail: the error code is not written
PointFail_nocode(code, M, ptsWritten) ==
  [fault |-> FALSE, status |-> 0, err |-> LILAC_MESH_ERR_OK, M |-> M,
   written |-> ptsWritten]

PointFail(code, M, ptsWritten) ==
  [fault |-> FALSE, status |-> 0, err |-> code, M |-> M,
   written |-> ptsWritten]

\* normd is zero and norma is not
PointNormDA(normd, norma) == (normd = 0) /\ (norma # 0)

\* Mutant of PointNorm2P: only a norma above the maximum is refused
PointNorm2P_gt(norma) == norma > LILAC_MESH_MAX_C

\* norma is equivalent to 2*PI radians
PointNorm2P(norma) == norma >= LILAC_MESH_MAX_C

\* Mutant of op_p: a point is taken whether or not there is room for it
op_p_noroom(normd, norma, x, y, M, ptsWritten) ==
  IF ~(ArgOk(normd) /\ ArgOk(norma) /\ ArgOk(x) /\ ArgOk(y))
    THEN [PointFail(LILAC_MESH_ERR_OK, M, ptsWritten) EXCEPT !.fault = TRUE]
  ELSE IF PointNormDA(normd, norma)
    THEN PointFail(LILAC_MESH_ERR_NORMDA, M, ptsWritten)
  ELSE IF PointNorm2P(norma)
    THEN PointFail(LILAC_MESH_ERR_NORM2P, M, ptsWritten)
  ELSE [fault |-> FALSE, status |-> 1, err |-> LILAC_MESH_ERR_OK,
        M |-> IF ptsWritten < M.point_count
                THEN [M EXCEPT !.pPoints[ptsWritten] =
                        [normd |-> normd, norma |-> norma, x |-> x, y |-> y]]
                ELSE M,
        written |-> ptsWritten + 1]

\* Mutant of op_p: the room for another point is checked first
op_p_roomfirst(normd, norma, x, y, M, ptsWritten) ==
  IF ~(ArgOk(normd) /\ ArgOk(norma) /\ ArgOk(x) /\ ArgOk(y))
    THEN [PointFail(LILAC_MESH_ERR_OK, M, ptsWritten) EXCEPT !.fault = TRUE]
  ELSE IF ptsWritten >= M.point_count
    THEN PointFail(LILAC_MESH_ERR_PTOVER, M, ptsWritten)
  ELSE IF PointNormDA(normd, norma)
    THEN PointFail(LILAC_MESH_ERR_NORMDA, M, ptsWritten)
  ELSE IF PointNorm2P(norma)
    THEN PointFail(LILAC_MESH_ERR_NORM2P, M, ptsWritten)
  ELSE [fault |-> FALSE, status |-> 1, err |-> LILAC_MESH_ERR_OK,
        M |-> [M EXCEPT !.pPoints[ptsWritten] =
                 [normd |-> normd, norma |-> norma, x |-> x, y |-> y]],
        written |-> ptsWritten + 1]

\* [fault, status, err, M, written]; fault: the call ended in abort()
op_p(normd, norma, x, y, M, ptsWritten) ==
  IF ~(ArgOk(normd) /\ ArgOk(norma) /\ ArgOk(x) /\ ArgOk(y))
    THEN [PointFail(LILAC_MESH_ERR_OK, M, ptsWritten) EXCEPT !.fault = TRUE]
  ELSE IF PointNormDA(normd, norma)
    THEN PointFail(LILAC_MESH_ERR_NORMDA, M, ptsWritten)
  ELSE IF PointNorm2P(norma)
    THEN PointFail(LILAC_MESH_ERR_NORM2P, M, ptsWritten)
  ELSE IF ptsWritten >= M.point_count
    THEN PointFail(LILAC_MESH_ERR_PTOVER, M, ptsWritten)
  ELSE [fault |-> FALSE, status |-> 1, err |-> LILAC_MESH_ERR_OK,
        M |-> [M EXCEPT !.pPoints[ptsWritten] =
                 [normd |-> normd, norma |-> norma, x |-> x, y |-> y]],
        written |-> ptsWritten + 1]

(***************************************************************************)
(* op_t                                                                    *)
(***************************************************************************)
TriPtRef(v1, v2, v3, ptsWritten) ==
  (v1 >= ptsWritten) \/ (v2 >= ptsWritten) \/ (v3 >= ptsWritten)

TriVxDup(v1, v2, v3) == (v1 = v2) \/ (v2 = v3) \/ (v1 = v3)

\* Mutant of TriVxOrd: only the second vertex is compared with the first
TriVxOrd_v2only(v1, v2, v3) == v2 < v1

TriVxOrd(v1, v2, v3) == (v2 < v1) \/ (v3 < v1)

\* k of op_t, times LILAC_MESH_MAX_C squared.  The code computes k in
\* doubles from coordinates divided by LILAC_MESH_MAX_C = 2^14.  Each
\* quotient, each difference (a multiple of 2^-14 of magnitude at most 1),
\* each product (a multiple of 2^-28 of magnitude at most 1) and the final
\* difference (magnitude at most 2) has at most 30 significant bits, so
\* every operation is exact in a 53-bit significand and k is exactly this
\* integer divided by 2^28.
CrossK(pA, pB, pC) ==
  ((pB.x - pA.x) * (pC.y - pA.y)) - ((pB.y - pA.y) * (pC.x - pA.x))

\* Mutant of TriCcw: a zero cross product is accepted
TriCcw_nonneg(pA, pB, pC) == CrossK(pA, pB, pC) >= 0

\* k > 0.0
TriCcw(pA, pB, pC) == CrossK(pA, pB, pC) > 0

\* Mutant of TriSorted: only the first vertices are compared
TriSorted_v1only(pt0, pt1, v1, v2) == ~(pt0 > v1)

\* Mutant of TriSorted: an equal pair counts as sorted
TriSorted_eq(pt0, pt1, v1, v2) ==
  IF pt0 > v1
    THEN FALSE
    ELSE IF pt0 = v1 THEN ~(pt1 > v2) ELSE TRUE

\* The previous triangle (pt0, pt1, ..) sorts before (v1, v2, ..)
TriSorted(pt0, pt1, v1, v2) ==
  IF pt0 > v1
    THEN FALSE
    ELSE IF pt0 = v1 THEN ~(pt1 >= v2) ELSE TRUE

TriFail(code, M, triWritten, Um) ==
  [fault |-> FALSE, status |-> 0, err |-> code, M |-> M,
   written |-> triWritten, um |-> Um]

TriFault(M, triWritten, Um) ==
  [TriFail(LILAC_MESH_ERR_OK, M, triWritten, Um) EXCEPT !.fault = TRUE]

\* The last part of op_t: mark the three points, write the triangle
TriAppend(v1, v2, v3, M, triWritten, Um) ==
  IF ~(IndexOk(Um, v1) /\ IndexOk(Um, v2) /\ IndexOk(Um, v3))
    THEN TriFault(M, triWritten, Um)
    ELSE [fault |-> FALSE, status |-> 1, err |-> LILAC_MESH_ERR_OK,
          M |-> [M EXCEPT !.pTris[triWritten * 3] = v1,
                          !.pTris[(triWritten * 3) + 1] = v2,
                          !.pTris[(triWritten * 3) + 2] = v3],
          written |-> triWritten + 1,
          um |-> usage_map_point(
                   usage_map_point(usage_map_point(Um, v1), v2), v3)]

\* Mutant of TriEdges: the edge (v3,v1) is marked but its result is ignored
TriEdges_ignore3(v1, v2, v3, M, triWritten, Um) ==
  IF ~(IndexOk(Um, v1) /\ IndexOk(Um, v2))
    THEN TriFault(M, triWritten, Um)
    ELSE
  LET e1 == usage_map_edge(Um, v1, v2)
  IN  IF e1.status = 0
        THEN TriFail(LILAC_MESH_ERR_DUPEDG, M, triWritten, e1.um)
      ELSE IF ~IndexOk(Um, v3)
        THEN TriFault(M, triWritten, e1.um)
        ELSE
  LET e2 == usage_map_edge(e1.um, v2, v3)
  IN  IF e2.status = 0
        THEN TriFail(LILAC_MESH_ERR_DUPEDG, M, triWritten, e2.um)
        ELSE TriAppend(v1, v2, v3, M, triWritten,
                       usage_map_edge(e2.um, v3, v1).um)

\* The three usage_map_edge calls of op_t, (v1,v2), (v2,v3), (v3,v1), each
\* made only if the one before it succeeded; then TriAppend
\* Mutant of TriEdges: the three points are marked before the edges are
\* looked at
TriEdges_pointsfirst(v1, v2, v3, M, triWritten, Um) ==
  IF ~(IndexOk(Um, v1) /\ IndexOk(Um, v2) /\ IndexOk(Um, v3))
    THEN TriFault(M, triWritten, Um)
    ELSE
  LET e0 == usage_map_point(usage_map_point(usage_map_point(Um, v1), v2), v3)
      e1 == usage_map_edge(e0, v1, v2)
  IN  IF e1.status = 0
        THEN TriFail(LILAC_MESH_ERR_DUPEDG, M, triWritten, e1.um)
        ELSE
  LET e2 == usage_map_edge(e1.um, v2, v3)
  IN  IF e2.status = 0
        THEN TriFail(LILAC_MESH_ERR_DUPEDG, M, triWritten, e2.um)
        ELSE
  LET e3 == usage_map_edge(e2.um, v3, v1)
  IN  IF e3.status = 0
        THEN TriFail(LILAC_MESH_ERR_DUPEDG, M, triWritten, e3.um)
        ELSE TriAppend(v1, v2, v3, M, triWritten, e3.um)

TriEdges(v1, v2, v3, M, triWritten, Um) ==
  IF ~(IndexOk(Um, v1) /\ IndexOk(Um, v2))
    THEN TriFault(M, triWritten, Um)
    ELSE
  LET e1 == usage_map_edge(Um, v1, v2)
  IN  IF e1.status = 0
        THEN TriFail(LILAC_MESH_ERR_DUPEDG, M, triWritten, e1.um)
      ELSE IF ~IndexOk(Um, v3)
        THEN TriFault(M, triWritten, e1.um)
        ELSE
  LET e2 == usage_map_edge(e1.um, v2, v3)
  IN  IF e2.status = 0
        THEN TriFail(LILAC_MESH_ERR_DUPEDG, M, triWritten, e2.um)
        ELSE
  LET e3 == usage_map_edge(e2.um, v3, v1)
  IN  IF e3.status = 0
        THEN TriFail(LILAC_MESH_ERR_DUPEDG, M, triWritten, e3.um)
        ELSE TriAppend(v1, v2, v3, M, triWritten, e3.um)

\* Mutant of op_t: the room for another triangle is checked before the
\* sorting of the triangle
op_t_roomfirst(v1, v2, v3, M, ptsWritten, triWritten, Um) ==
  IF ~(ArgOk(v1) /\ ArgOk(v2) /\ ArgOk(v3)
         /\ (ptsWritten >= 0) /\ (ptsWritten <= LILAC_MESH_MAX_POINTS))
    THEN TriFault(M, triWritten, Um)
  ELSE IF TriPtRef(v1, v2, v3, ptsWritten)
    THEN TriFail(LILAC_MESH_ERR_PTREF, M, triWritten, Um)
  ELSE IF TriVxDup(v1, v2, v3)
    THEN TriFail(LILAC_MESH_ERR_VXDUP, M, triWritten, Um)
  ELSE IF TriVxOrd(v1, v2, v3)
    THEN TriFail(LILAC_MESH_ERR_VXORD, M, triWritten, Um)
  ELSE IF ~TriCcw(M.pPoints[v1], M.pPoints[v2], M.pPoints[v3])
    THEN TriFail(LILAC_MESH_ERR_ORIENT, M, triWritten, Um)
  ELSE IF triWritten >= M.tri_count
    THEN TriFail(LILAC_MESH_ERR_TROVER, M, triWritten, Um)
  ELSE IF (triWritten > 0)
          /\ ~TriSorted(M.pTris[(triWritten - 1) * 3],
                        M.pTris[((triWritten - 1) * 3) + 1], v1, v2)
    THEN TriFail(LILAC_MESH_ERR_TRSORT, M, triWritten, Um)
  ELSE TriEdges(v1, v2, v3, M, triWritten, Um)

\* Mutant of op_t: a triangle is refused until every declared point is
\* written
op_t_allpoints(v1, v2, v3, M, ptsWritten, triWritten, Um) ==
  IF ~(ArgOk(v1) /\ ArgOk(v2) /\ ArgOk(v3)
         /\ (ptsWritten >= 0) /\ (ptsWritten <= LILAC_MESH_MAX_POINTS))
    THEN TriFault(M, triWritten, Um)
  ELSE IF TriPtRef(v1, v2, v3, ptsWritten) \/ (ptsWritten < M.point_count)
    THEN TriFail(LILAC_MESH_ERR_PTREF, M, triWritten, Um)
  ELSE IF TriVxDup(v1, v2, v3)
    THEN TriFail(LILAC_MESH_ERR_VXDUP, M, triWritten, Um)
  ELSE IF TriVxOrd(v1, v2, v3)
    THEN TriFail(LILAC_MESH_ERR_VXORD, M, triWritten, Um)
  ELSE IF ~TriCcw(M.pPoints[v1], M.pPoints[v2], M.pPoints[v3])
    THEN TriFail(LILAC_MESH_ERR_ORIENT, M, triWritten, Um)
  ELSE IF (triWritten > 0)
          /\ ~TriSorted(M.pTris[(triWritten - 1) * 3],
                        M.pTris[((triWritten - 1) * 3) + 1], v1, v2)
    THEN TriFail(LILAC_MESH_ERR_TRSORT, M, triWritten, Um)
  ELSE IF triWritten >= M.tri_count
    THEN TriFail(LILAC_MESH_ERR_TROVER, M, triWritten, Um)
  ELSE TriEdges(v1, v2, v3, M, triWritten, Um)

\* [fault, status, err, M, written, um]; fault: the call ended in abort()
op_t(v1, v2, v3, M, ptsWritten, triWritten, Um) ==
  IF ~(ArgOk(v1) /\ ArgOk(v2) /\ ArgOk(v3)
         /\ (ptsWritten >= 0) /\ (ptsWritten <= LILAC_MESH_MAX_POINTS))
    THEN TriFault(M, triWritten, Um)
  ELSE IF TriPtRef(v1, v2, v3, ptsWritten)
    THEN TriFail(LILAC_MESH_ERR_PTREF, M, triWritten, Um)
  ELSE IF TriVxDup(v1, v2, v3)
    THEN TriFail(LILAC_MESH_ERR_VXDUP, M, triWritten, Um)
  ELSE IF TriVxOrd(v1, v2, v3)
    THEN TriFail(LILAC_MESH_ERR_VXORD, M, triWritten, Um)
  ELSE IF ~TriCcw(M.pPoints[v1], M.pPoints[v2], M.pPoints[v3])
    THEN TriFail(LILAC_MESH_ERR_ORIENT, M, triWritten, Um)
  ELSE IF (triWritten > 0)
          /\ ~TriSorted(M.pTris[(triWritten - 1) * 3],
                        M.pTris[((triWritten - 1) * 3) + 1], v1, v2)
    THEN TriFail(LILAC_MESH_ERR_TRSORT, M, triWritten, Um)
  ELSE IF triWritten >= M.tri_count
    THEN TriFail(LILAC_MESH_ERR_TROVER, M, triWritten, Um)
  ELSE TriEdges(v1, v2, v3, M, triWritten, Um)

(***************************************************************************)
(* Input source.  An entity is [status, pKey]; pKey is the sequence of the *)
(* character codes of the token.  The files read are of five families:     *)
(*   "quad"  - the points are the four corners of the square of the format *)
(*             description, in its order, then one more point;             *)
(*   "free"  - up to MaxFreePts points, each any record of FreePoints;     *)
(*   "limit" - a header whose counts are at the limits, and no record; any *)
(*             number of empty lines may come before an entity;            *)
(*   "stack" - numbers that belong to no record come before the first      *)
(*             record, each the height of the stack it is pushed on; the   *)
(*             points are the first corners of the square;                 *)
(*   "fan"   - the points (i, i*i) of a convex arc, then the triangles      *)
(*             (0, t+1, t+2) of the fan around point 0, in order.          *)
(* In "limit" a number above LILAC_MESH_MAX_C may come in the body.        *)
(* Outside "fan" a triangle record names any three indices up to the       *)
(* number of points read before it (at most MaxIdx); end of input, a       *)
(* tokenizer error or a stray entity may come between two records or after *)
(* the first field of a record.  Each entity is on a line of its own.      *)
(***************************************************************************)
RECURSIVE Dec(_)
Dec(n) == IF n < 10 THEN <<48 + n>> ELSE Dec(n \div 10) \o <<48 + (n % 10)>>

KEY_SIGNATURE == <<108, 105, 108, 97, 99, 45, 109, 101, 115, 104>>
KEY_DIM == <<100, 105, 109>>
KEY_P == <<112>>
KEY_T == <<116>>
KEY_OTHER == <<113>>

Ent(statusv, key) == [status |-> statusv, pKey |-> key]

Families == {"quad", "free", "limit", "stack", "fan"}

SnErrors == {-1, -2}

\* Tokens that parseNumber rejects: empty, a sign, a letter after a digit,
\* and the first integer above LILAC_MESH_MAX_C
BadTexts == {<<>>, <<45, 49>>, <<49, 120>>, Dec(LILAC_MESH_MAX_C + 1)}

Interrupts ==
  {Ent(SNENTITY.EOF, <<>>), Ent(SNENTITY.STRING, <<>>),
   Ent(SNENTITY.BEGIN_META, <<>>)}
    \cup {Ent(e, <<>>) : e \in SnErrors}

PtsVals(fam) ==
  CASE fam = "quad" -> 0 .. MaxQuadPts
    [] fam = "free" -> 0 .. MaxFreePts
    [] fam = "stack" -> 0 .. MaxStackPts
    [] fam = "fan" -> {MaxFanPts - 1, MaxFanPts}
    [] OTHER -> {0, LILAC_MESH_MAX_POINTS, LILAC_MESH_MAX_POINTS + 1,
                 LILAC_MESH_MAX_C}

TrisVals(fam) ==
  CASE fam = "limit" -> {0, LILAC_MESH_MAX_TRIS, LILAC_MESH_MAX_TRIS + 1,
                         LILAC_MESH_MAX_C}
    [] fam = "stack" -> 0 .. 1
    [] fam = "fan" -> (MaxFanPts - 4) .. (MaxFanPts - 2)
    [] OTHER -> 0 .. MaxTris

DimTexts(vals, fam) ==
  {Dec(v) : v \in vals}
    \cup (IF fam = "limit" THEN BadTexts \cup {<<48, 48, 48>>} ELSE {})

\* The entities a header read may return at position p
HeaderEnts(p, fam) ==
  Interrupts
    \cup {Ent(SNENTITY.END_META, <<>>)}
    \cup {Ent(SNENTITY.META_TOKEN, k) :
            k \in CASE p = "dim_pts" -> DimTexts(PtsVals(fam), fam)
                    [] p = "dim_tris" -> DimTexts(TrisVals(fam), fam)
                    [] OTHER -> {KEY_SIGNATURE, KEY_DIM}}

Pt(normd, norma, x, y) == <<normd, norma, x, y>>

QuadPoints ==
  <<Pt(0, 0, 0, 0), Pt(0, 0, LILAC_MESH_MAX_C, 0),
    Pt(0, 0, LILAC_MESH_MAX_C, LILAC_MESH_MAX_C),
    Pt(0, 0, 0, LILAC_MESH_MAX_C)>>

\* Records that op_p refuses whatever the count
BadPoints ==
  {Pt(0, 1, 0, 0), Pt(0, LILAC_MESH_MAX_C, 0, 0),
   Pt(1, LILAC_MESH_MAX_C, 0, 0)}

\* The fifth point of a "quad" file: the centre of the square, or a second
\* point on the first corner
ExtraPoints ==
  {Pt(LILAC_MESH_MAX_C, LILAC_MESH_MAX_C - 1, 8192, 8192), Pt(1, 0, 0, 0)}

FreePoints ==
  {Pt(0, 0, 0, 0), Pt(LILAC_MESH_MAX_C, 0, LILAC_MESH_MAX_C, 0),
   Pt(1, LILAC_MESH_MAX_C - 1, LILAC_MESH_MAX_C, LILAC_MESH_MAX_C),
   Pt(0, 0, 8192, 8192)}

\* The point records a file may hold as its record number i (from 0)
PointRecs(fam, i) ==
  CASE fam = "quad" ->
         IF i < 4 THEN {QuadPoints[i + 1]} \cup (IF i = 0 THEN BadPoints ELSE {})
         ELSE IF i < MaxQuadPts THEN ExtraPoints ELSE {}
    [] fam = "free" -> IF i < MaxFreePts THEN FreePoints \cup BadPoints ELSE {}
    [] fam = "stack" ->
         IF (i < MaxStackPts) /\ (i < 4) THEN {QuadPoints[i + 1]} ELSE {}
    [] fam = "fan" -> IF i < MaxFanPts THEN {Pt(1, 0, i, i * i)} ELSE {}
    [] OTHER -> {}

Min(a, b) == IF a < b THEN a ELSE b

\* The indices a triangle record may name after i point records
TriIdx(fam, i) == IF fam = "limit" THEN {} ELSE 0 .. Min(i, MaxIdx)

\* Mutant of TopN: the n oldest values of the stack
TopN_bottom(stack, n) == SubSeq(stack, 1, n)

\* The top n values of the stack, oldest first
TopN(stack, n) == SubSeq(stack, (Len(stack) - n) + 1, Len(stack))

Idle == [rec |-> "idle", n |-> 0]

\* The values a file may hold as field n+1 of its next triangle record
TriField(n) ==
  IF src.fam = "fan"
    THEN IF (points_written = point_count)
              /\ ((tris_written + 2) < points_written)
           THEN {<<0, tris_written + 1, tris_written + 2>>[n + 1]}
           ELSE {}
    ELSE TriIdx(src.fam, points_written)

\* Family "stack": the numbers that belong to no record
Strays ==
  IF (src.fam = "stack") /\ (points_written = 0) /\ (tris_written = 0)
    THEN {Len(st)}
    ELSE {}

\* What a body read may return, with the position in the record after it
BodyOffers ==
  CASE src.rec = "idle" ->
         {[ent |-> e, next |-> Idle] : e \in Interrupts}
           \cup {[ent |-> Ent(SNENTITY.NUMERIC, <<>>), next |-> Idle]}
           \cup {[ent |-> Ent(SNENTITY.OPERATION, k), next |-> Idle] :
                   k \in {KEY_P, KEY_T, KEY_OTHER}}
           \cup {[ent |-> Ent(SNENTITY.NUMERIC, Dec(r[1])),
                  next |-> [rec |-> "p", n |-> 1]] :
                   r \in PointRecs(src.fam, points_written)}
           \cup {[ent |-> Ent(SNENTITY.NUMERIC, Dec(v)),
                  next |-> [rec |-> "t", n |-> 1]] :
                   v \in TriField(0)}
           \cup {[ent |-> Ent(SNENTITY.NUMERIC, Dec(v)), next |-> Idle] :
                   v \in Strays}
           \cup (IF src.fam = "limit"
                   THEN {[ent |-> Ent(SNENTITY.NUMERIC,
                                      Dec(LILAC_MESH_MAX_C + 1)),
                          next |-> Idle]}
                   ELSE {})
    [] src.rec = "p" ->
         IF src.n = 4
           THEN {[ent |-> Ent(SNENTITY.OPERATION, KEY_P), next |-> Idle]}
           ELSE {[ent |-> Ent(SNENTITY.NUMERIC, Dec(r[src.n + 1])),
                  next |-> [rec |-> "p", n |-> src.n + 1]] :
                   r \in {q \in PointRecs(src.fam, points_written) :
                            SubSeq(q, 1, src.n) = TopN(st, src.n)}}
                  \cup (IF src.n = 1
                          THEN {[ent |-> e, next |-> Idle] : e \in Interrupts}
                          ELSE {})
    [] OTHER ->
         IF src.n = 3
           THEN {[ent |-> Ent(SNENTITY.OPERATION, KEY_T), next |-> Idle]}
           ELSE {[ent |-> Ent(SNENTITY.NUMERIC, Dec(v)),
                  next |-> [rec |-> "t", n |-> src.n + 1]] :
                   v \in TriField(src.n)}
                  \cup (IF src.n = 1
                          THEN {[ent |-> Ent(SNENTITY.NUMERIC, <<49, 120>>),
                                 next |-> Idle]}
                          ELSE {})

(***************************************************************************)
(* lilac_mesh_new and readHeader                                           *)
(***************************************************************************)
NoCall == [op |-> "none"]

NoRead == [at |-> "none", ent |-> Ent(SNENTITY.EOF, <<>>), line |-> 0,
           st |-> <<>>, M |-> NullMesh]

NoMsg == [withLine |-> FALSE, text |-> ""]

\* No call of parseNumber is being followed
NoParse == [pstr |-> <<>>, k |-> 1, result |-> 0, at |-> "none"]

ParseOff == pn = NoParse

\* No call of usage_map_edge is being followed
MapOff == uh = <<>>

\* lilacme2png.c before main: the static variables as they are defined
NoRender == [at |-> "none"]

RenderOff ==
  /\ m_inter = INTER_UNDEF
  /\ m_vmode = VMODE_UNDEF
  /\ m_w = 0
  /\ m_h = 0
  /\ pBuf = <<>>
  /\ pva = <<>>
  /\ ren = NoRender

Init ==
  /\ pc = "sig_begin"
  /\ src \in {[fam |-> f, rec |-> "idle", n |-> 0] : f \in Families}
  /\ lineno = 0
  /\ i_pts = 0
  /\ i_tris = 0
  /\ point_count = 0
  /\ tri_count = 0
  /\ points_written = 0
  /\ tris_written = 0
  /\ st = <<>>
  /\ pM = NullMesh
  /\ um = usage_map_init
  /\ status = 1
  /\ errCode = LILAC_MESH_ERR_OK
  /\ line = 0
  /\ call = NoCall
  /\ hdr = <<>>
  /\ rd = NoRead
  /\ msg = NoMsg
  /\ ParseOff
  /\ MapOff
  /\ RenderOff

\* Mutant of NormLine: LONG_MAX itself is let through
NormLine_max(l) == IF (l < 1) \/ (l > LONG_MAX) THEN 0 ELSE l

\* The line adjustment at the end of readHeader and of lilac_mesh_new
NormLine(l) == IF (l < 1) \/ (l >= LONG_MAX) THEN 0 ELSE l

\* snparser_count after the read of this step
snparser_count == lineno'

\* The line counts the tokenizer may have after its next read: one more, or
\* in family "limit" a count at the end of the range of long; the count
\* stays at LONG_MAX once it is there
NextLines ==
  IF lineno >= LONG_MAX
    THEN {LONG_MAX}
    ELSE {lineno + 1}
           \cup (IF src.fam = "limit"
                   THEN {l \in {LONG_MAX - 1, LONG_MAX} : l > lineno}
                   ELSE {})

\* A failure: status = 0, the code and line are written, then the exit of
\* lilac_mesh_new resets the usage map, frees the mesh and returns NULL
\* Mutant of Fail: the loop of lilac_mesh_new goes on after the failure
Fail_goeson(code, ln) ==
  /\ status' = 0
  /\ errCode' = code
  /\ line' = NormLine(NormLine(ln))
  /\ um' = usage_map_init
  /\ pM' = NullMesh
  /\ pc' = "body"
  /\ UNCHANGED <<point_count, tri_count>>

Fail(code, ln) ==
  /\ status' = 0
  /\ errCode' = code
  /\ line' = NormLine(NormLine(ln))
  /\ um' = usage_map_init
  /\ pM' = NullMesh
  /\ pc' = "done"
  /\ UNCHANGED <<point_count, tri_count>>

\* One read of readHeader that expects an entity of the given kind with an
\* acceptable key; `then` is what follows when the entity is the expected one
HeaderRead(here, kind, keyOk(_), code, lnOf(_), then(_)) ==
  /\ pc = here
  /\ \E e \in HeaderEnts(here, src.fam), ln \in NextLines :
       /\ lineno' = ln
       /\ hdr' = Append(hdr, e)
       /\ rd' = [at |-> here, ent |-> e, line |-> ln, st |-> st, M |-> pM]
       /\ IF e.status < 0
            THEN Fail(e.status, snparser_count) /\ UNCHANGED <<i_pts, i_tris>>
          ELSE IF e.status # kind
            THEN Fail(code, lnOf(e)) /\ UNCHANGED <<i_pts, i_tris>>
          ELSE IF ~keyOk(e.pKey)
            THEN Fail(code, lnOf(e)) /\ UNCHANGED <<i_pts, i_tris>>
          ELSE then(e)
  /\ UNCHANGED <<src, points_written, tris_written, st, call, msg>>
  /\ UNCHANGED <<parseVars, mapVars, renderVars>>

Goto(p) ==
  /\ pc' = p
  /\ UNCHANGED <<i_pts, i_tris, point_count, tri_count, status, errCode,
                 line, um, pM>>

AnyKey(k) == TRUE
Line0(e) == 0
LineCount(e) == snparser_count

ReadSigBegin ==
  LET then(e) == Goto("sig_token")
  IN  HeaderRead("sig_begin", SNENTITY.BEGIN_META, AnyKey,
                 LILAC_MESH_ERR_NOSIG, Line0, then)

ReadSigToken ==
  LET ok(k) == k = KEY_SIGNATURE
      then(e) == Goto("sig_end")
  IN  HeaderRead("sig_token", SNENTITY.META_TOKEN, ok,
                 LILAC_MESH_ERR_NOSIG, Line0, then)

ReadSigEnd ==
  LET then(e) == Goto("dim_begin")
  IN  HeaderRead("sig_end", SNENTITY.END_META, AnyKey,
                 LILAC_MESH_ERR_SIGVER, LineCount, then)

\* Mutant of ReadDimBegin: a missing metacommand is reported as BADDIM
ReadDimBegin_baddim ==
  LET then(e) == Goto("dim_token")
  IN  HeaderRead("dim_begin", SNENTITY.BEGIN_META, AnyKey,
                 LILAC_MESH_ERR_BADDIM, Line0, then)

ReadDimBegin ==
  LET then(e) == Goto("dim_token")
  IN  HeaderRead("dim_begin", SNENTITY.BEGIN_META, AnyKey,
                 LILAC_MESH_ERR_NODIM, Line0, then)

ReadDimToken ==
  LET ok(k) == k = KEY_DIM
      then(e) == Goto("dim_pts")
  IN  HeaderRead("dim_token", SNENTITY.META_TOKEN, ok,
                 LILAC_MESH_ERR_NODIM, Line0, then)

ReadDimPts ==
  LET then(e) ==
        IF parseNumber(e.pKey) < 0
          THEN Fail(LILAC_MESH_ERR_DIMVAL, snparser_count)
                 /\ UNCHANGED <<i_pts, i_tris>>
          ELSE /\ i_pts' = parseNumber(e.pKey)
               /\ pc' = "dim_tris"
               /\ UNCHANGED <<i_tris, point_count, tri_count, status,
                              errCode, line, um, pM>>
  IN  HeaderRead("dim_pts", SNENTITY.META_TOKEN, AnyKey,
                 LILAC_MESH_ERR_BADDIM, LineCount, then)

ReadDimTris ==
  LET then(e) ==
        IF parseNumber(e.pKey) < 0
          THEN Fail(LILAC_MESH_ERR_DIMVAL, snparser_count)
                 /\ UNCHANGED <<i_pts, i_tris>>
          ELSE /\ i_tris' = parseNumber(e.pKey)
               /\ pc' = "dim_end"
               /\ UNCHANGED <<i_pts, point_count, tri_count, status,
                              errCode, line, um, pM>>
  IN  HeaderRead("dim_tris", SNENTITY.META_TOKEN, AnyKey,
                 LILAC_MESH_ERR_BADDIM, LineCount, then)

\* The last read of readHeader, its range checks, and what lilac_mesh_new
\* does with the counts before its first body read
ReadDimEnd ==
  LET then(e) ==
        IF (i_pts < 0) \/ (i_pts > LILAC_MESH_MAX_POINTS)
          THEN Fail(LILAC_MESH_ERR_PCOUNT, 0) /\ UNCHANGED <<i_pts, i_tris>>
        ELSE IF (i_tris < 0) \/ (i_tris > LILAC_MESH_MAX_TRIS)
          THEN Fail(LILAC_MESH_ERR_TCOUNT, 0) /\ UNCHANGED <<i_pts, i_tris>>
        ELSE /\ point_count' = i_pts
             /\ tri_count' = i_tris
             /\ um' = usage_map_dim(i_pts)
             /\ pM' = NewMesh(i_pts, i_tris)
             /\ pc' = "body"
             /\ UNCHANGED <<i_pts, i_tris, status, errCode, line>>
  IN  HeaderRead("dim_end", SNENTITY.END_META, AnyKey,
                 LILAC_MESH_ERR_BADDIM, LineCount, then)

\* One pass of the loop of lilac_mesh_new: the read, and the entity handled
BodyRead(handle(_)) ==
  /\ pc = "body"
  /\ \E o \in BodyOffers, ln \in NextLines :
       /\ lineno' = ln
       /\ src' = [src EXCEPT !.rec = o.next.rec, !.n = o.next.n]
       /\ rd' = [at |-> "body", ent |-> o.ent, line |-> ln, st |-> st,
                 M |-> pM]
       /\ handle(o.ent)
  /\ UNCHANGED <<i_pts, i_tris, hdr, msg>>
  /\ UNCHANGED <<parseVars, mapVars, renderVars>>

Continue ==
  /\ pc' = "body"
  /\ UNCHANGED <<point_count, tri_count, status, errCode, line>>

\* abort(): the process ends inside the call
Abort ==
  /\ pc' = "aborted"
  /\ UNCHANGED <<point_count, tri_count, status, errCode, line, um, pM,
                 points_written, tris_written, st>>

\* Mutant of BodyNumeric: the room on the stack is checked before the
\* literal is parsed
BodyNumeric_roomfirst ==
  LET handle(e) ==
        /\ e.status = SNENTITY.NUMERIC
        /\ LET i == parseNumber(e.pKey)
           IN  IF Len(st) >= MAX_SN_STACK
                 THEN Fail(LILAC_MESH_ERR_OVERFL, snparser_count)
                        /\ UNCHANGED st
               ELSE IF i < 0
                 THEN Fail(LILAC_MESH_ERR_NUMBER, snparser_count)
                        /\ UNCHANGED st
               ELSE st' = Append(st, i) /\ Continue /\ UNCHANGED <<um, pM>>
        /\ UNCHANGED <<points_written, tris_written, call>>
  IN  BodyRead(handle)

BodyNumeric ==
  LET handle(e) ==
        /\ e.status = SNENTITY.NUMERIC
        /\ LET i == parseNumber(e.pKey)
           IN  IF i < 0
                 THEN Fail(LILAC_MESH_ERR_NUMBER, snparser_count)
                        /\ UNCHANGED st
               ELSE IF Len(st) >= MAX_SN_STACK
                 THEN Fail(LILAC_MESH_ERR_OVERFL, snparser_count)
                        /\ UNCHANGED st
               ELSE st' = Append(st, i) /\ Continue /\ UNCHANGED <<um, pM>>
        /\ UNCHANGED <<points_written, tris_written, call>>
  IN  BodyRead(handle)

BodyOpP ==
  LET handle(e) ==
        /\ e.status = SNENTITY.OPERATION
        /\ e.pKey = KEY_P
        /\ IF Len(st) < 4
             THEN Fail(LILAC_MESH_ERR_UNDERF, snparser_count)
                    /\ UNCHANGED <<st, points_written, call>>
             ELSE LET a == TopN(st, 4)
                      r == op_p(a[1], a[2], a[3], a[4], pM, points_written)
                  IN  /\ call' = [op |-> "p", args |-> a,
                                  pw |-> points_written,
                                  tw |-> tris_written,
                                  M |-> pM, um |-> um, res |-> r,
                                  mixed |-> (r.status # 0)
                                              /\ (tris_written > 0)]
                      /\ IF r.fault
                           THEN Abort
                         ELSE IF r.status = 0
                           THEN Fail(r.err, snparser_count)
                                  /\ UNCHANGED <<st, points_written>>
                         ELSE /\ pM' = r.M
                              /\ points_written' = r.written
                              /\ st' = SubSeq(st, 1, Len(st) - 4)
                              /\ Continue
                              /\ UNCHANGED um
        /\ UNCHANGED tris_written
  IN  BodyRead(handle)

BodyOpT ==
  LET handle(e) ==
        /\ e.status = SNENTITY.OPERATION
        /\ e.pKey = KEY_T
        /\ IF Len(st) < 3
             THEN Fail(LILAC_MESH_ERR_UNDERF, snparser_count)
                    /\ UNCHANGED <<st, tris_written, call>>
             ELSE LET a == TopN(st, 3)
                      r == op_t(a[1], a[2], a[3], pM, points_written,
                                tris_written, um)
                  IN  /\ call' = [op |-> "t", args |-> a,
                                  pw |-> points_written,
                                  tw |-> tris_written,
                                  M |-> pM, um |-> um, res |-> r,
                                  mixed |-> (call.op # "none") /\ call.mixed]
                      /\ IF r.fault
                           THEN Abort
                         ELSE IF r.status = 0
                           THEN Fail(r.err, snparser_count)
                                  /\ UNCHANGED <<st, tris_written>>
                         ELSE /\ pM' = r.M
                              /\ um' = r.um
                              /\ tris_written' = r.written
                              /\ st' = SubSeq(st, 1, Len(st) - 3)
                              /\ Continue
        /\ UNCHANGED points_written
  IN  BodyRead(handle)

\* Mutant of BodyOpOther: the stack is looked at before the name of the
\* operation
BodyOpOther_underf ==
  LET handle(e) ==
        /\ e.status = SNENTITY.OPERATION
        /\ e.pKey # KEY_P
        /\ e.pKey # KEY_T
        /\ IF Len(st) = 0
             THEN Fail(LILAC_MESH_ERR_UNDERF, snparser_count)
             ELSE Fail(LILAC_MESH_ERR_BADOP, snparser_count)
        /\ UNCHANGED <<st, points_written, tris_written, call>>
  IN  BodyRead(handle)

BodyOpOther ==
  LET handle(e) ==
        /\ e.status = SNENTITY.OPERATION
        /\ e.pKey # KEY_P
        /\ e.pKey # KEY_T
        /\ Fail(LILAC_MESH_ERR_BADOP, snparser_count)
        /\ UNCHANGED <<st, points_written, tris_written, call>>
  IN  BodyRead(handle)

BodyOther ==
  LET handle(e) ==
        /\ e.status > 0
        /\ e.status # SNENTITY.NUMERIC
        /\ e.status # SNENTITY.OPERATION
        /\ Fail(LILAC_MESH_ERR_ETYPE, snparser_count)
        /\ UNCHANGED <<st, points_written, tris_written, call>>
  IN  BodyRead(handle)

\* Mutant of BodyEnd: the usage map is not asked for orphans
BodyEnd_noorphan ==
  LET handle(e) ==
        /\ ~(e.status > 0)
        /\ IF e.status < 0
             THEN Fail(e.status, snparser_count)
           ELSE IF Len(st) > 0
             THEN Fail(LILAC_MESH_ERR_REM, 0)
           ELSE IF points_written # point_count
             THEN Fail(LILAC_MESH_ERR_PUNDEF, 0)
           ELSE IF tris_written # tri_count
             THEN Fail(LILAC_MESH_ERR_TUNDEF, 0)
           ELSE /\ um' = usage_map_init
                /\ pc' = "done"
                /\ UNCHANGED <<point_count, tri_count, status, errCode,
                               line, pM>>
        /\ UNCHANGED <<st, points_written, tris_written, call>>
  IN  BodyRead(handle)

\* Mutant of BodyEnd: a tokenizer error is reported as an entity of an
\* unsupported type
BodyEnd_errtype ==
  LET handle(e) ==
        /\ ~(e.status > 0)
        /\ IF e.status < 0
             THEN Fail(LILAC_MESH_ERR_ETYPE, snparser_count)
           ELSE IF Len(st) > 0
             THEN Fail(LILAC_MESH_ERR_REM, 0)
           ELSE IF points_written # point_count
             THEN Fail(LILAC_MESH_ERR_PUNDEF, 0)
           ELSE IF tris_written # tri_count
             THEN Fail(LILAC_MESH_ERR_TUNDEF, 0)
           ELSE IF usage_map_orphan(um) # 0
             THEN Fail(LILAC_MESH_ERR_ORPHAN, 0)
           ELSE /\ um' = usage_map_init
                /\ pc' = "done"
                /\ UNCHANGED <<point_count, tri_count, status, errCode,
                               line, pM>>
        /\ UNCHANGED <<st, points_written, tris_written, call>>
  IN  BodyRead(handle)

\* Mutant of BodyEnd: the points are counted before the stack is looked at
BodyEnd_pointsfirst ==
  LET handle(e) ==
        /\ ~(e.status > 0)
        /\ IF e.status < 0
             THEN Fail(e.status, snparser_count)
           ELSE IF points_written # point_count
             THEN Fail(LILAC_MESH_ERR_PUNDEF, 0)
           ELSE IF Len(st) > 0
             THEN Fail(LILAC_MESH_ERR_REM, 0)
           ELSE IF tris_written # tri_count
             THEN Fail(LILAC_MESH_ERR_TUNDEF, 0)
           ELSE IF usage_map_orphan(um) # 0
             THEN Fail(LILAC_MESH_ERR_ORPHAN, 0)
           ELSE /\ um' = usage_map_init
                /\ pc' = "done"
                /\ UNCHANGED <<point_count, tri_count, status, errCode,
                               line, pM>>
        /\ UNCHANGED <<st, points_written, tris_written, call>>
  IN  BodyRead(handle)

\* The loop ends: a tokenizer error, or end of input and the final checks
BodyEnd ==
  LET handle(e) ==
        /\ ~(e.status > 0)
        /\ IF e.status < 0
             THEN Fail(e.status, snparser_count)
           ELSE IF Len(st) > 0
             THEN Fail(LILAC_MESH_ERR_REM, 0)
           ELSE IF points_written # point_count
             THEN Fail(LILAC_MESH_ERR_PUNDEF, 0)
           ELSE IF tris_written # tri_count
             THEN Fail(LILAC_MESH_ERR_TUNDEF, 0)
           ELSE IF usage_map_orphan(um) # 0
             THEN Fail(LILAC_MESH_ERR_ORPHAN, 0)
           ELSE /\ um' = usage_map_init
                /\ pc' = "done"
                /\ UNCHANGED <<point_count, tri_count, status, errCode,
                               line, pM>>
        /\ UNCHANGED <<st, points_written, tris_written, call>>
  IN  BodyRead(handle)

(***************************************************************************)
(* lilac_mesh_errstr, and its call in main of lilacme2json.c                *)
(***************************************************************************)
\* snerror_str of the Shastina library, which is outside the repository:
\* all that is modelled of its messages is that they are its own
snerror_str(code) == "snerror_str"

lilac_mesh_errstr(code) ==
  CASE code = LILAC_MESH_ERR_OK -> "No error"
    [] code = LILAC_MESH_ERR_REM ->
         "Elements remain on the interpreter stack at end"
    [] code = LILAC_MESH_ERR_PUNDEF -> "Points remain undefined in mesh"
    [] code = LILAC_MESH_ERR_TUNDEF -> "Triangles remain undefined in mesh"
    [] code = LILAC_MESH_ERR_ORPHAN -> "Orphan points detected in mesh"
    [] code = LILAC_MESH_ERR_ETYPE -> "Unsupported Shastina entity type"
    [] code = LILAC_MESH_ERR_NUMBER -> "Invalid numeric literal"
    [] code = LILAC_MESH_ERR_OVERFL -> "Interpreter stack overflow"
    [] code = LILAC_MESH_ERR_BADOP -> "Unrecognized mesh operation"
    [] code = LILAC_MESH_ERR_UNDERF -> "Stack underflow during operation"
    [] code = LILAC_MESH_ERR_NOSIG -> "Failed to read Lilac mesh signature"
    [] code = LILAC_MESH_ERR_SIGVER ->
         "Lilac mesh signature for unsupported version"
    [] code = LILAC_MESH_ERR_NODIM ->
         "Failed to read Lilac mesh dimensions metacommand"
    [] code = LILAC_MESH_ERR_BADDIM ->
         "Invalid Lilac mesh dimension metacommand syntax"
    [] code = LILAC_MESH_ERR_DIMVAL ->
         "Lilac mesh dimension value is out of range"
    [] code = LILAC_MESH_ERR_PCOUNT ->
         "Declared mesh point count is out of allowed range"
    [] code = LILAC_MESH_ERR_TCOUNT ->
         "Declared mesh triangle count is out of allowed range"
    [] code = LILAC_MESH_ERR_NORMDA ->
         "norma must be zero when normd is zero"
    [] code = LILAC_MESH_ERR_NORM2P ->
         "norma must be less than 2*PI radians"
    [] code = LILAC_MESH_ERR_PTOVER ->
         "More points defined than were declared in dimensions"
    [] code = LILAC_MESH_ERR_PTREF ->
         "Triangle references point that hasn't been defined"
    [] code = LILAC_MESH_ERR_VXDUP -> "Triangle has duplicated vertex point"
    [] code = LILAC_MESH_ERR_VXORD ->
         "First triangle vertex must have lowest numeric index"
    [] code = LILAC_MESH_ERR_ORIENT ->
         "Triangle vertices must be in counter-clockwise order"
    [] code = LILAC_MESH_ERR_TRSORT ->
         "Triangles are sorted incorrectly in list"
    [] code = LILAC_MESH_ERR_DUPEDG ->
         "Same directed triangle edge used more than once"
    [] OTHER -> IF code < 0 THEN snerror_str(code) ELSE "Unknown error"

\* main: lilac_mesh_new returned NULL, the message is printed, with the
\* line if it is positive
ReportError ==
  /\ pc = "done"
  /\ ~pM.alloc
  /\ msg' = [withLine |-> line > 0, text |-> lilac_mesh_errstr(errCode)]
  /\ pc' = "exit"
  /\ UNCHANGED <<src, lineno, i_pts, i_tris, point_count, tri_count,
                 points_written, tris_written, st, pM, um, status, errCode,
                 line, call, hdr, rd>>
  /\ UNCHANGED <<parseVars, mapVars, renderVars>>

Next ==
  \/ ReadSigBegin
  \/ ReadSigToken
  \/ ReadSigEnd
  \/ ReadDimBegin
  \/ ReadDimToken
  \/ ReadDimPts
  \/ ReadDimTris
  \/ ReadDimEnd
  \/ BodyNumeric
  \/ BodyOpP
  \/ BodyOpT
  \/ BodyOpOther
  \/ BodyOther
  \/ BodyEnd
  \/ ReportError

Spec == Init /\ [][Next]_vars

(***************************************************************************)
(* parseNumber, one step for each assignment of result.  result is an      *)
(* int32_t: the model keeps its mathematical value, and the property that  *)
(* it stays within 32 bits is checked.                                     *)
(***************************************************************************)
INT32_MAX == 2147483647

\* The locals of lilac_mesh_new while it is not running
LoaderIdle ==
  /\ src = [fam |-> "none", rec |-> "idle", n |-> 0]
  /\ lineno = 0
  /\ i_pts = 0
  /\ i_tris = 0
  /\ point_count = 0
  /\ tri_count = 0
  /\ points_written = 0
  /\ tris_written = 0
  /\ st = <<>>
  /\ status = 1
  /\ errCode = LILAC_MESH_ERR_OK
  /\ line = 0
  /\ call = NoCall
  /\ hdr = <<>>
  /\ rd = NoRead
  /\ msg = NoMsg

\* lilac_mesh_new is not called
LoaderOff ==
  /\ pc = "off"
  /\ pM = NullMesh
  /\ LoaderIdle

\* The characters 0, 1, 9 and x
ParseAlphabet == {48, 49, 57, 120}

\* The strings over ParseAlphabet of at most n characters
RECURSIVE StringsUpTo(_)
StringsUpTo(n) ==
  IF n = 0
    THEN {<<>>}
    ELSE LET s == StringsUpTo(n - 1)
         IN  s \cup {Append(t, c) : t \in {u \in s : Len(u) = n - 1},
                                    c \in ParseAlphabet}

\* z zeros before the string t
RECURSIVE ZeroPad(_, _)
ZeroPad(z, t) == IF z = 0 THEN t ELSE ZeroPad(z - 1, <<48>> \o t)

\* The strings parseNumber is called with: every short string over the
\* alphabet, a sign, and the values around LILAC_MESH_MAX_C and the largest
\* value result can take, each also with zeros before it
ParseTexts ==
  StringsUpTo(MaxParseLen)
    \cup {<<45, 49>>}
    \cup {ZeroPad(z, Dec(v)) :
            z \in 0 .. 2,
            v \in {0, LILAC_MESH_MAX_C - 1, LILAC_MESH_MAX_C,
                   LILAC_MESH_MAX_C + 1, (10 * LILAC_MESH_MAX_C) + 9}}

ParseInit ==
  /\ LoaderOff
  /\ um = usage_map_init
  /\ MapOff
  /\ RenderOff
  /\ pn \in {[pstr |-> t, k |-> 1, result |-> 0, at |-> "entry"] :
               t \in ParseTexts}

\* "Make sure at least one character"
ParseEmpty ==
  /\ pn.at = "entry"
  /\ IF Len(pn.pstr) = 0
       THEN pn' = [pn EXCEPT !.result = -1, !.at = "ret"]
       ELSE pn' = [pn EXCEPT !.at = "loop"]
  /\ UNCHANGED <<loaderVars, mapVars, renderVars>>

\* The loop test, the digit test and "Add into current result"
ParseChar ==
  /\ pn.at = "loop"
  /\ IF pn.k > Len(pn.pstr)
       THEN pn' = [pn EXCEPT !.at = "ret"]
       ELSE LET c == pn.pstr[pn.k]
            IN  IF (c < 48) \/ (c > 57)
                  THEN pn' = [pn EXCEPT !.result = -1, !.at = "ret"]
                  ELSE pn' = [pn EXCEPT !.result = (pn.result * 10) + (c - 48),
                                        !.at = "check"]
  /\ UNCHANGED <<loaderVars, mapVars, renderVars>>

\* Mutant of ParseLimit: the value is never compared with LILAC_MESH_MAX_C
ParseLimit_never ==
  /\ pn.at = "check"
  /\ pn' = [pn EXCEPT !.k = pn.k + 1, !.at = "loop"]
  /\ UNCHANGED <<loaderVars, mapVars, renderVars>>

\* "Check for overflow", then pstr++
ParseLimit ==
  /\ pn.at = "check"
  /\ IF pn.result > LILAC_MESH_MAX_C
       THEN pn' = [pn EXCEPT !.result = -1, !.at = "ret"]
       ELSE pn' = [pn EXCEPT !.k = pn.k + 1, !.at = "loop"]
  /\ UNCHANGED <<loaderVars, mapVars, renderVars>>

ParseNext == ParseEmpty \/ ParseChar \/ ParseLimit

ParseSpec == ParseInit /\ [][ParseNext]_vars

(***************************************************************************)
(* A usage map by itself: usage_map_init, usage_map_dim, then calls of     *)
(* usage_map_edge with any indices, until one of them ends in abort().     *)
(***************************************************************************)
\* The point counts the map is dimensioned for; with MaxMapPts points the
\* edge bits take more than one word
MapSizes == {2, 3, MaxMapPts}

\* The values given as an index to a map for n points; n itself is out of
\* range
MapIndices(n) == IF n <= 3 THEN 0 .. n ELSE {0, 2, n - 1, n}

MapInit ==
  /\ LoaderOff
  /\ um \in {usage_map_dim(n) : n \in MapSizes}
  /\ uh = <<>>
  /\ ParseOff
  /\ RenderOff

\* One call usage_map_edge(&um, i1, i2)
EdgeCall ==
  /\ Len(uh) < MaxEdgeCalls
  /\ IF uh = <<>> THEN TRUE ELSE ~uh[Len(uh)].fault
  /\ \E i1 \in MapIndices(um.point_count), i2 \in MapIndices(um.point_count) :
       IF ~(IndexOk(um, i1) /\ IndexOk(um, i2))
         THEN /\ uh' = Append(uh, [i1 |-> i1, i2 |-> i2, fault |-> TRUE,
                                   status |-> 0])
              /\ UNCHANGED um
         ELSE LET r == usage_map_edge(um, i1, i2)
              IN  /\ uh' = Append(uh, [i1 |-> i1, i2 |-> i2, fault |-> FALSE,
                                       status |-> r.status])
                  /\ um' = r.um
  /\ UNCHANGED <<pc, src, lineno, i_pts, i_tris, point_count, tri_count,
                 points_written, tris_written, st, pM, status, errCode,
                 line, call, hdr, rd, msg>>
  /\ UNCHANGED <<parseVars, renderVars>>

MapNext == EdgeCall

MapSpec == MapInit /\ [][MapNext]_vars

(***************************************************************************)
(* A usage map by itself: usage_map_init, usage_map_dim, then calls of     *)
(* usage_map_point, until one of them ends in abort().  uh holds the last  *)
(* call: its index, whether it ended in abort(), the map before it,        *)
(* whether the index was given to a call before, and the set of the        *)
(* indices given to the calls so far.                                      *)
(***************************************************************************)
\* The point counts the map is dimensioned for: none, less than a word, a
\* word, more than a word, two words, more than two words
SweepSizes == {0, 1, 31, 32, 33, 64, MaxSweepPts}

\* The indices given to the calls that returned
Marked == IF uh = <<>> THEN {} ELSE uh[1].marked

\* The values given as an index when the indices in done are marked: the
\* least unmarked index and the one after it, the first and the last index
\* of the map, and the two nearest values out of range
SweepIndices(n, done) ==
  LET todo == (0 .. (n - 1)) \ done
      least == {i \in todo : \A j \in todo : i <= j}
  IN  least \cup {i + 1 : i \in least} \cup {0, n - 1, -1, n}

SweepInit ==
  /\ LoaderOff
  /\ um \in {usage_map_dim(n) : n \in SweepSizes}
  /\ uh = <<>>
  /\ ParseOff
  /\ RenderOff

\* One call usage_map_point(&um, i)
PointCall ==
  /\ IF uh = <<>> THEN TRUE ELSE ~uh[1].fault
  /\ \E i \in SweepIndices(um.point_count, Marked) :
       IF ~IndexOk(um, i)
         THEN /\ uh' = <<[i |-> i, fault |-> TRUE, before |-> um,
                          was |-> FALSE, marked |-> Marked]>>
              /\ UNCHANGED um
         ELSE /\ uh' = <<[i |-> i, fault |-> FALSE, before |-> um,
                          was |-> i \in Marked, marked |-> Marked \cup {i}]>>
              /\ um' = usage_map_point(um, i)
  /\ UNCHANGED <<pc, src, lineno, i_pts, i_tris, point_count, tri_count,
                 points_written, tris_written, st, pM, status, errCode,
                 line, call, hdr, rd, msg>>
  /\ UNCHANGED <<parseVars, renderVars>>

SweepNext == PointCall

SweepSpec == SweepInit /\ [][SweepNext]_vars

(***************************************************************************)
(* lilacme2png.c: numbers.  A double that holds a coordinate is the        *)
(* rational [n, d] with d > 0 and the operations on it are exact.  A float *)
(* that holds a vertex attribute is an integer count of 2^-21, and every   *)
(* operation on it rounds as IEEE single precision does: to a significand *)
(* of 24 bits, to nearest, ties to even.                                   *)
(***************************************************************************)
RECURSIVE Gcd(_, _)
Gcd(a, b) == IF b = 0 THEN a ELSE Gcd(b, a % b)

\* The rational n / d (d > 0) in lowest terms
Q(n, d) ==
  LET g == Gcd(IF n < 0 THEN -n ELSE n, d)
  IN  [n |-> n \div g, d |-> d \div g]

QInt(k) == Q(k, 1)

QAdd(a, b) == Q((a.n * b.d) + (b.n * a.d), a.d * b.d)

QSub(a, b) == Q((a.n * b.d) - (b.n * a.d), a.d * b.d)

QMul(a, b) == Q(a.n * b.n, a.d * b.d)

\* a / b for b > 0
QDiv(a, b) == Q(a.n * b.d, a.d * b.n)

QLe(a, b) == (a.n * b.d) <= (b.n * a.d)

QLt(a, b) == (a.n * b.d) < (b.n * a.d)

QEq(a, b) == (a.n * b.d) = (b.n * a.d)

\* (double) k + 0.5
QCentre(k) == Q((2 * k) + 1, 2)

\* f - (double) k > 0.5
FracAboveHalf(f, k) == (2 * (f.n - (k * f.d))) > f.d

\* ifloor: floor(f); the range check of int32_t cannot fail on the
\* coordinates of the model
ifloor(f) == f.n \div f.d

\* iinc and idec: their range checks cannot fail either
iinc(v) == v + 1

idec(v) == v - 1

IVEC_THETA == Q(1, 100000)

\* 1.0f as a count of 2^-21
AttrOne == 2097152

\* The distance of neighbouring floats at magnitude a, as a count of 2^-21
RECURSIVE F32Ulp(_)
F32Ulp(a) == IF a < 16777216 THEN 1 ELSE 2 * F32Ulp(a \div 2)

\* The float nearest to the exact result c
F32Round(c) ==
  LET a == IF c < 0 THEN -c ELSE c
      u == F32Ulp(a)
      q == a \div u
      r == a % u
      up == ((2 * r) > u) \/ (((2 * r) = u) /\ ((q % 2) = 1))
      m == (IF up THEN q + 1 ELSE q) * u
  IN  IF c < 0 THEN -m ELSE m

(***************************************************************************)
(* lilacme2png.c: vertexColor.  A packed ARGB value is <<a, r, g, b>>.     *)
(***************************************************************************)
\* UINT32_C(0xff000000)
Sentinel == <<255, 0, 0, 0>>

\* The value calloc leaves in a pixel
ZeroPixel == <<0, 0, 0, 0>>

\* One channel: floor((((c + 1.0f) / 2.0f) * 254.0f) + 1.0f), then the two
\* clamps.  The division by two is exact, so sum / 2 * 254 is 127 * sum.
Channel(c) ==
  LET sum == F32Round(c + AttrOne)
      prod == F32Round(127 * sum)
      gf == F32Round(prod + AttrOne) \div AttrOne
      g1 == IF ~(gf >= 1) THEN 1 ELSE gf
  IN  IF g1 > 255 THEN 255 ELSE IF g1 < 1 THEN 1 ELSE g1

\* m_inter is INTER_SCALAR or INTER_VECTOR in every call: main sets it
\* before anything is drawn
vertexColor(pv) ==
  IF m_inter = INTER_SCALAR
    THEN <<255, Channel(pv.v), Channel(pv.v), Channel(pv.v)>>
    ELSE <<255, Channel(pv.vx), Channel(pv.vy), Channel(pv.vz)>>

(***************************************************************************)
(* lilacme2png.c: VERTEX and IVEC                                          *)
(***************************************************************************)
Vertex(x, y, v, vx, vy, vz) ==
  [x |-> x, y |-> y, v |-> v, vx |-> vx, vy |-> vy, vz |-> vz]

IMODE_SCALAR == 1
IMODE_VLINEAR == 2

\* In vector mode the two vertices hold the same unit vector in every call
\* of the model: the angle is acos(1) = 0, which is below MIN_SLERP_ANGLE
ivec_init(v1, v2) ==
  [v1 |-> v1, v2 |-> v2,
   mode |-> IF m_inter = INTER_SCALAR THEN IMODE_SCALAR ELSE IMODE_VLINEAR]

\* (a * (1.0f - tf)) + (b * tf) in single precision: a for t = 0, b for
\* t = 1, and a again when a = b is 0, 1 or -1 (1 - tf and tf add up to 1
\* after rounding).  Other operands do not occur in the model.
LerpF(a, b, t) ==
  CASE QEq(t, QInt(0)) -> a
    [] QEq(t, QInt(1)) -> b
    [] (a = b) /\ (a \in {0, AttrOne, -AttrOne}) -> a

ClampUnit(f) ==
  IF ~(f >= -AttrOne) THEN -AttrOne ELSE IF ~(f <= AttrOne) THEN AttrOne ELSE f

ivec_compute(piv, t) ==
  LET tc == IF ~QLe(QInt(0), t) THEN QInt(0)
            ELSE IF ~QLe(t, QInt(1)) THEN QInt(1) ELSE t
      rest == QSub(QInt(1), tc)
      x == QAdd(QMul(piv.v1.x, rest), QMul(piv.v2.x, tc))
      y == QAdd(QMul(piv.v1.y, rest), QMul(piv.v2.y, tc))
  IN  IF piv.mode = IMODE_SCALAR
        THEN Vertex(x, y, ClampUnit(LerpF(piv.v1.v, piv.v2.v, tc)), 0, 0, 0)
        ELSE Vertex(x, y, 0, LerpF(piv.v1.vx, piv.v2.vx, tc),
                    LerpF(piv.v1.vy, piv.v2.vy, tc),
                    LerpF(piv.v1.vz, piv.v2.vz, tc))

\* [err, pr]; err: raiseErr was called
ivec_atX(piv, x) ==
  LET fwd == QLe(piv.v1.x, piv.v2.x)
      min_x == IF fwd THEN piv.v1.x ELSE piv.v2.x
      max_x == IF fwd THEN piv.v2.x ELSE piv.v1.x
      denom == QSub(max_x, min_x)
      t0 == IF QLe(IVEC_THETA, denom)
              THEN QDiv(QSub(x, min_x), denom)
              ELSE QInt(0)
      t == IF fwd THEN t0 ELSE QSub(QInt(1), t0)
  IN  IF ~(QLe(min_x, x) /\ QLe(x, max_x))
        THEN [err |-> TRUE, pr |-> piv.v1]
        ELSE [err |-> FALSE, pr |-> [ivec_compute(piv, t) EXCEPT !.x = x]]

\* [err, pr]; err: raiseErr was called
ivec_atY(piv, y) ==
  LET fwd == QLe(piv.v1.y, piv.v2.y)
      min_y == IF fwd THEN piv.v1.y ELSE piv.v2.y
      max_y == IF fwd THEN piv.v2.y ELSE piv.v1.y
      denom == QSub(max_y, min_y)
      t0 == IF QLe(IVEC_THETA, denom)
              THEN QDiv(QSub(y, min_y), denom)
              ELSE QInt(0)
      t == IF fwd THEN t0 ELSE QSub(QInt(1), t0)
  IN  IF ~(QLe(min_y, y) /\ QLe(y, max_y))
        THEN [err |-> TRUE, pr |-> piv.v1]
        ELSE [err |-> FALSE, pr |-> [ivec_compute(piv, t) EXCEPT !.y = y]]

(***************************************************************************)
(* lilacme2png.c: renderSpan, renderPair, renderTri.  The buffer is given  *)
(* and returned; wr is the set of the pixels (offsets into the buffer)     *)
(* that were written, err tells that raiseErr ended the program.           *)
(***************************************************************************)
Drawn(buf, wr, err) == [buf |-> buf, wr |-> wr, err |-> err]

\* The offset of pixel (x, y) in a buffer of width w
PixelAt(x, y, w) == (y * w) + x

\* Mutant of SpanColumns: a column whose centre is the end of the span is
\* drawn too
SpanColumns_closed(v1, v2) ==
  LET x0 == ifloor(v1.x)
      x1 == ifloor(v2.x)
  IN  [x_min |-> IF FracAboveHalf(v1.x, x0) THEN iinc(x0) ELSE x0,
       x_max |-> IF QLt(v2.x, QCentre(x1)) THEN idec(x1) ELSE x1]

\* The columns x_min .. x_max of renderSpan before they are clipped
SpanColumns(v1, v2) ==
  LET x0 == ifloor(v1.x)
      x1 == ifloor(v2.x)
  IN  [x_min |-> IF FracAboveHalf(v1.x, x0) THEN iinc(x0) ELSE x0,
       x_max |-> IF ~FracAboveHalf(v2.x, x1) THEN idec(x1) ELSE x1]

\* The stores of the loop of renderSpan: vx[x] is what ivec_atX returned
\* for column x
SpanWrite(buf, y, cols, vx) ==
  Drawn([p \in DOMAIN buf |->
           IF (p \div m_w = y) /\ ((p % m_w) \in cols)
             THEN vertexColor(vx[p % m_w].pr)
             ELSE buf[p]],
        {PixelAt(x, y, m_w) : x \in cols},
        \E x \in cols : vx[x].err)

\* Mutant of SpanLoop: a pixel that holds the mask value is written too
SpanLoop_nomask(buf, y, x_min, x_max, iv) ==
  SpanWrite(buf, y, x_min .. x_max,
            [x \in x_min .. x_max |-> ivec_atX(iv, QCentre(x))])

\* The loop of renderSpan over the columns x_min .. x_max of row y
SpanLoop(buf, y, x_min, x_max, iv) ==
  LET cols == {x \in x_min .. x_max : buf[PixelAt(x, y, m_w)] # Sentinel}
  IN  SpanWrite(buf, y, cols, [x \in cols |-> ivec_atX(iv, QCentre(x))])

\* renderSpan from the clipping on: c holds x_min and x_max
SpanClip(buf, v1, v2, y, c) ==
  IF (c.x_max < c.x_min) \/ (y < 0) \/ (y >= m_h)
       \/ (c.x_max < 0) \/ (c.x_min >= m_w)
    THEN Drawn(buf, {}, FALSE)
    ELSE SpanLoop(buf, y,
                  IF c.x_min < 0 THEN 0 ELSE c.x_min,
                  IF c.x_max >= m_w THEN m_w - 1 ELSE c.x_max,
                  ivec_init(v1, v2))

\* [buf, wr, err]
renderSpan(buf, va, vb) ==
  IF ~QEq(va.y, vb.y)
    THEN Drawn(buf, {}, TRUE)
    ELSE IF QLe(va.x, vb.x)
           THEN SpanClip(buf, va, vb, ifloor(va.y), SpanColumns(va, vb))
           ELSE SpanClip(buf, vb, va, ifloor(vb.y), SpanColumns(vb, va))

\* Mutant of PairRows: a scanline whose centre is the end of the extent is
\* drawn too
PairRows_closed(min_y, max_y) ==
  LET s0 == ifloor(min_y)
      f0 == ifloor(max_y)
  IN  [start_y |-> IF FracAboveHalf(min_y, s0) THEN iinc(s0) ELSE s0,
       finish_y |-> IF QLt(max_y, QCentre(f0)) THEN idec(f0) ELSE f0]

\* The scanlines start_y .. finish_y of renderPair before they are clipped,
\* for the extent min_y .. max_y
PairRows(min_y, max_y) ==
  LET s0 == ifloor(min_y)
      f0 == ifloor(max_y)
  IN  [start_y |-> IF FracAboveHalf(min_y, s0) THEN iinc(s0) ELSE s0,
       finish_y |-> IF ~FracAboveHalf(max_y, f0) THEN idec(f0) ELSE f0]

\* What renderPair leaves when it returns before its loop
NoPair(buf) == [buf |-> buf, wr |-> {}, err |-> FALSE, rows |-> {}]

\* A pass of the loop of renderPair in which renderSpan was called and
\* returned r
SpanCalled(r) == [buf |-> r.buf, wr |-> r.wr, err |-> r.err, called |-> TRUE]

\* One pass of the loop of renderPair after the two calls of ivec_atY
PairSpan(buf, ve1, ve2) ==
  IF ve1.err \/ ve2.err
    THEN [buf |-> buf, wr |-> {}, err |-> TRUE, called |-> FALSE]
    ELSE SpanCalled(renderSpan(buf, ve1.pr, ve2.pr))

\* One pass of the loop of renderPair, for scanline y
PairRow(buf, y, e1, e2) ==
  PairSpan(buf, ivec_atY(e1, QCentre(y)), ivec_atY(e2, QCentre(y)))

\* The passes row[y] of the loop of renderPair put together.  A pass reads
\* and writes only the pixels of its own scanline, so each is taken on the
\* buffer the loop starts with; the loop ends with the first pass that
\* raises an error.
PairJoin(buf, row) ==
  LET failed == {y \in DOMAIN row : row[y].err}
      passed == {y \in DOMAIN row : \A f \in failed : y <= f}
  IN  [buf |-> [p \in DOMAIN buf |->
                  IF (p \div m_w) \in passed THEN row[p \div m_w].buf[p]
                                             ELSE buf[p]],
       wr |-> UNION {row[y].wr : y \in passed},
       err |-> failed # {},
       rows |-> {y \in passed : row[y].called}]

\* The loop of renderPair over the scanlines start_y .. finish_y
PairLoop(buf, start_y, finish_y, e1, e2) ==
  PairJoin(buf, [y \in start_y .. finish_y |-> PairRow(buf, y, e1, e2)])

\* renderPair from the clipping on: r holds start_y and finish_y
PairClip(buf, va1, va2, vb1, vb2, r) ==
  IF (r.finish_y < r.start_y) \/ (r.finish_y < 0) \/ (r.start_y >= m_h)
    THEN NoPair(buf)
    ELSE PairLoop(buf,
                  IF r.start_y < 0 THEN 0 ELSE r.start_y,
                  IF r.finish_y >= m_h THEN m_h - 1 ELSE r.finish_y,
                  ivec_init(va1, va2), ivec_init(vb1, vb2))

\* Mutant of PairOrdered: the scanlines of the whole of both edges are
\* taken, not only those of their overlap
PairOrdered_union(buf, va1, va2, vb1, vb2) ==
  IF ~(QLe(vb1.y, va2.y) /\ QLe(va1.y, vb2.y))
    THEN NoPair(buf)
    ELSE PairClip(buf, va1, va2, vb1, vb2,
                  PairRows(IF QLt(va1.y, vb1.y) THEN va1.y ELSE vb1.y,
                           IF QLt(vb2.y, va2.y) THEN va2.y ELSE vb2.y))

\* renderPair after the ends of each edge are put in the order of their Y
PairOrdered(buf, va1, va2, vb1, vb2) ==
  IF ~(QLe(vb1.y, va2.y) /\ QLe(va1.y, vb2.y))
    THEN NoPair(buf)
    ELSE PairClip(buf, va1, va2, vb1, vb2,
                  PairRows(IF QLt(va1.y, vb1.y) THEN vb1.y ELSE va1.y,
                           IF QLt(vb2.y, va2.y) THEN vb2.y ELSE va2.y))

\* [buf, wr, err, rows]; rows: the scanlines renderSpan was called for
renderPair(buf, a1, a2, b1, b2) ==
  PairOrdered(buf,
              IF ~QLe(a1.y, a2.y) THEN a2 ELSE a1,
              IF ~QLe(a1.y, a2.y) THEN a1 ELSE a2,
              IF ~QLe(b1.y, b2.y) THEN b2 ELSE b1,
              IF ~QLe(b1.y, b2.y) THEN b1 ELSE b2)

\* |a.y - b.y|
YExtent(a, b) == IF QLe(a.y, b.y) THEN QSub(b.y, a.y) ELSE QSub(a.y, b.y)

\* The edge table of renderTri in which edge number long_edge is made the
\* first
TriSwap(et, long_edge) ==
  IF long_edge = 1
    THEN et
    ELSE [et EXCEPT ![1] = et[long_edge], ![long_edge] = et[1]]

\* Mutant of TriLongFirst: of edges of equal extent the later one is taken
TriLongFirst_lasttie(et, ex) ==
  TriSwap(et, IF QLe(ex[1], ex[2])
                THEN (IF QLe(ex[2], ex[3]) THEN 3 ELSE 2)
                ELSE (IF QLe(ex[1], ex[3]) THEN 3 ELSE 1))

\* The edges of renderTri after the long one is made the first; ex[i]: the
\* Y extent of edge i
TriLongFirst(et, ex) ==
  TriSwap(et, IF QLt(ex[1], ex[2])
                THEN (IF QLt(ex[2], ex[3]) THEN 3 ELSE 2)
                ELSE (IF QLt(ex[1], ex[3]) THEN 3 ELSE 1))

TriEdgeTable(v1, v2, v3) ==
  TriLongFirst(<<<<v1, v2>>, <<v2, v3>>, <<v3, v1>>>>,
               <<YExtent(v1, v2), YExtent(v2, v3), YExtent(v3, v1)>>)

\* One call of renderPair by renderTri: the edges it is given and the
\* scanlines it renders
PairCalled(a, b, p) ==
  [a1 |-> a[1], a2 |-> a[2], b1 |-> b[1], b2 |-> b[2], rows |-> p.rows]

\* What renderTri leaves: the buffer, the pixels written, the fault, and the
\* calls of renderPair it made
TriDrawn(buf, wr, err, calls) ==
  [buf |-> buf, wr |-> wr, err |-> err, calls |-> calls]

\* The result of renderTri after its two calls of renderPair, the second
\* of them made with the edges long and 3 of the table
TriJoin(p1, p2, et, long) ==
  TriDrawn(p2.buf, p1.wr \cup p2.wr, p2.err,
           <<PairCalled(et[1], et[2], p1), PairCalled(et[long], et[3], p2)>>)

\* renderTri after a first call of renderPair that ended the program
TriFirstOnly(p1, et) ==
  TriDrawn(p1.buf, p1.wr, TRUE, <<PairCalled(et[1], et[2], p1)>>)

\* Mutant of TriSecond: the two short edges are paired with each other
\* instead of the long edge with the second of them
TriSecond_short(p1, et) ==
  IF p1.err
    THEN TriFirstOnly(p1, et)
    ELSE TriJoin(p1, renderPair(p1.buf, et[2][1], et[2][2],
                                et[3][1], et[3][2]), et, 2)

\* renderTri after its first call of renderPair returned p1
TriSecond(p1, et) ==
  IF p1.err
    THEN TriFirstOnly(p1, et)
    ELSE TriJoin(p1, renderPair(p1.buf, et[1][1], et[1][2],
                                et[3][1], et[3][2]), et, 1)

\* renderTri once the edge table is made
TriPairs(buf, et) ==
  TriSecond(renderPair(buf, et[1][1], et[1][2], et[2][1], et[2][2]), et)

renderTri(buf, v1, v2, v3) == TriPairs(buf, TriEdgeTable(v1, v2, v3))

(***************************************************************************)
(* lilacme2png.c: convertVertex and the pixel buffer                       *)
(***************************************************************************)
\* The models give every point norma = 0 and normd = 0 or LILAC_MESH_MAX_C:
\* cos(0) = 1 and sin(0) = 0, so vx = normd / LILAC_MESH_MAX_C and vy = 0
\* exactly, and vz = sqrt(1 - vx * vx) is 1 or 0.
\* The doubles of the position are exact: c / 16384 and 1 - c / 16384 have
\* at most fifteen significant bits, and their products with m_w - 1 and
\* m_h - 1 far fewer than 53.
\* floor(f) of <math.h>
QFloor(f) == f.n \div f.d

\* floor(u * (double) n) + 0.5
PixelCentre(u, n) == QCentre(QFloor(QMul(u, QInt(n))))

\* Mutant of ImageY: the Y axis is not inverted
ImageY_upward(pp) == PixelCentre(Q(pp.y, LILAC_MESH_MAX_C), m_h - 1)

\* pv->x and pv->y of convertVertex
ImageX(pp) == PixelCentre(Q(pp.x, LILAC_MESH_MAX_C), m_w - 1)

ImageY(pp) ==
  PixelCentre(QSub(QInt(1), Q(pp.y, LILAC_MESH_MAX_C)), m_h - 1)

convertVertex(pp) ==
  LET x == ImageX(pp)
      y == ImageY(pp)
      vx == CASE pp.norma = 0 -> pp.normd * (AttrOne \div LILAC_MESH_MAX_C)
      vy == CASE pp.norma = 0 -> 0
  IN  CASE m_vmode = VMODE_X -> Vertex(x, y, vx, vx, vy, 0)
        [] m_vmode = VMODE_Y -> Vertex(x, y, vy, vx, vy, 0)
        [] m_vmode = VMODE_3D ->
             Vertex(x, y, 0, vx, vy,
                    CASE vx = 0 -> AttrOne [] vx = AttrOne -> 0)

\* initBufMask and initBufDim: the buffer of w * h pixels in which the
\* pixels of masked hold the mask value and the others zero
NewBuffer(w, h, masked) ==
  [p \in 0 .. ((w * h) - 1) |-> IF p \in masked THEN Sentinel ELSE ZeroPixel]

\* The mask images of the models: one pixel masked, and every second one
MaskSets(w, h) ==
  {{PixelAt(1, 1, w)},
   {PixelAt(x, y, w) : x \in {c \in 0 .. (w - 1) : c % 2 = 1}, y \in 0 .. (h - 1)}}

\* The (m_inter, m_vmode) pairs main sets for the modes scalar-x, scalar-y
\* and vector
RenderModes ==
  {<<INTER_SCALAR, VMODE_X>>, <<INTER_SCALAR, VMODE_Y>>,
   <<INTER_VECTOR, VMODE_3D>>}

(***************************************************************************)
(* The rasterizer by itself: one call of vertexColor, renderSpan or        *)
(* renderPair on a buffer of FillW * FillH pixels.  Coordinates are        *)
(* multiples of 1/4.                                                       *)
(***************************************************************************)
\* The attribute values vertexColor is called with, as counts of 2^-21:
\* -2, -1, 0, 16513 * 2^-21, 1/2, 1 - 2^-21, 1 and 3
AttrVals ==
  {-2 * AttrOne, -AttrOne, 0, 16513, AttrOne \div 2, AttrOne - 1, AttrOne,
   3 * AttrOne}

\* The vectors vertexColor is called with
AttrVecs ==
  {<<0, 0, AttrOne>>, <<AttrOne, 0, 0>>, <<-AttrOne, AttrOne \div 2, 0>>,
   <<16513, -2 * AttrOne, 3 * AttrOne>>}

\* The attributes of the vertices given to renderSpan and renderPair: the
\* scalar 0, the vector (0, 0, 1)
FlatVertex(x, y) == Vertex(x, y, 0, 0, 0, AttrOne)

\* X coordinates of span ends, in quarters: from one pixel left of the
\* buffer to one pixel right of it
SpanXs == -4 .. ((4 * FillW) + 4)

\* Y coordinates of spans, in quarters
SpanYs == {-2, 2, 6, 4 * FillH}

\* Y coordinates of the ends of the edges of a pair, in quarters
PairYs == {-2, 1, 2, 6, (4 * FillH) - 2, (4 * FillH) + 2}

FillInit ==
  /\ LoaderOff
  /\ um = usage_map_init
  /\ ParseOff
  /\ MapOff
  /\ \E md \in RenderModes \ {<<INTER_SCALAR, VMODE_Y>>} :
       (m_inter = md[1]) /\ (m_vmode = md[2])
  /\ m_w = FillW
  /\ m_h = FillH
  /\ \E masked \in {{}, {PixelAt(1, 1, FillW)}} :
       /\ pBuf = NewBuffer(FillW, FillH, masked)
       /\ ren = [at |-> "ready", mask |-> masked]
  /\ pva = <<>>

ColorCall ==
  /\ ren.at = "ready"
  /\ \E pv \in IF m_inter = INTER_SCALAR
                 THEN {Vertex(QCentre(0), QCentre(0), c, 0, 0, 0) :
                         c \in AttrVals}
                 ELSE {Vertex(QCentre(0), QCentre(0), 0, c[1], c[2], c[3]) :
                         c \in AttrVecs} :
       ren' = [at |-> "color", mask |-> ren.mask, pv |-> pv,
               col |-> vertexColor(pv)]
  /\ UNCHANGED <<loaderVars, parseVars, mapVars, m_inter, m_vmode, m_w, m_h,
                 pBuf, pva>>

SpanCall ==
  /\ ren.at = "ready"
  /\ \E x1 \in SpanXs, x2 \in SpanXs, y1 \in SpanYs :
       \E y2 \in {y1} \cup (IF (x1 = 2) /\ (x2 = 6) THEN {y1 + 1} ELSE {}) :
         LET v1 == FlatVertex(Q(x1, 4), Q(y1, 4))
             v2 == FlatVertex(Q(x2, 4), Q(y2, 4))
             r == renderSpan(pBuf, v1, v2)
         IN  /\ pBuf' = r.buf
             /\ ren' = [at |-> "span", mask |-> ren.mask, v1 |-> v1,
                        v2 |-> v2, wr |-> r.wr, err |-> r.err]
  /\ UNCHANGED <<loaderVars, parseVars, mapVars, m_inter, m_vmode, m_w, m_h,
                 pva>>

PairCall ==
  /\ ren.at = "ready"
  /\ \E ya1 \in PairYs, ya2 \in PairYs, yb1 \in PairYs, yb2 \in PairYs,
        xb \in {2, (4 * FillW) - 2} :
       LET va1 == FlatVertex(Q(2, 4), Q(ya1, 4))
           va2 == FlatVertex(Q(2, 4), Q(ya2, 4))
           vb1 == FlatVertex(Q(xb, 4), Q(yb1, 4))
           vb2 == FlatVertex(Q((4 * FillW) - 2, 4), Q(yb2, 4))
           r == renderPair(pBuf, va1, va2, vb1, vb2)
       IN  /\ pBuf' = r.buf
           /\ ren' = [at |-> "pair", mask |-> ren.mask, va1 |-> va1,
                      va2 |-> va2, vb1 |-> vb1, vb2 |-> vb2, wr |-> r.wr,
                      rows |-> r.rows, err |-> r.err]
  /\ UNCHANGED <<loaderVars, parseVars, mapVars, m_inter, m_vmode, m_w, m_h,
                 pva>>

\* renderTri called on three vertices of a grid, in any order and orientation
TriXs == {2, 7, (4 * FillW) - 2}

TriYs == {2, 5, 6, (4 * FillH) - 2}

TriCalled(v1, v2, v3, r) ==
  /\ pBuf' = r.buf
  /\ ren' = [at |-> "tri", mask |-> ren.mask, v1 |-> v1, v2 |-> v2,
             v3 |-> v3, wr |-> r.wr, calls |-> r.calls, err |-> r.err]

TriVertices(x1, y1, x2, y2, x3, y3) ==
  <<FlatVertex(Q(x1, 4), Q(y1, 4)), FlatVertex(Q(x2, 4), Q(y2, 4)),
    FlatVertex(Q(x3, 4), Q(y3, 4))>>

TriCallOn(v) == TriCalled(v[1], v[2], v[3], renderTri(pBuf, v[1], v[2], v[3]))

TriCall ==
  /\ ren.at = "ready"
  /\ \E x1 \in TriXs, x2 \in TriXs, x3 \in TriXs,
        y1 \in TriYs, y2 \in TriYs, y3 \in TriYs :
       TriCallOn(TriVertices(x1, y1, x2, y2, x3, y3))
  /\ UNCHANGED <<loaderVars, parseVars, mapVars, m_inter, m_vmode, m_w, m_h,
                 pva>>

FillNext == ColorCall \/ SpanCall \/ PairCall \/ TriCall

FillSpec == FillInit /\ [][FillNext]_vars

(***************************************************************************)
(* convertVertex by itself: one call on a point of the mesh, for buffers   *)
(* of 1 * 1 to MaxConvDim * MaxConvDim pixels.                             *)
(***************************************************************************)
MaxConvDim == 5

\* The coordinates of the point: the ends of the range, and the values at
\* which the column or the row changes for some size of the model
ConvertCoords ==
  {0, 1, 4095, 4096, 5461, 5462, 8191, 8192, 10922, 10923, 12288, 16383,
   LILAC_MESH_MAX_C}

ConvertInit ==
  /\ LoaderOff
  /\ um = usage_map_init
  /\ ParseOff
  /\ MapOff
  /\ \E md \in RenderModes : (m_inter = md[1]) /\ (m_vmode = md[2])
  /\ m_w \in 1 .. MaxConvDim
  /\ m_h \in 1 .. MaxConvDim
  /\ pBuf = NewBuffer(m_w, m_h, {})
  /\ ren = [at |-> "ready", mask |-> {}]
  /\ pva = <<>>

ConvertCall ==
  /\ ren.at = "ready"
  /\ \E x \in ConvertCoords, y \in ConvertCoords,
        normd \in {0, LILAC_MESH_MAX_C} :
       LET pp == [normd |-> normd, norma |-> 0, x |-> x, y |-> y]
       IN  ren' = [at |-> "convert", mask |-> ren.mask, pp |-> pp,
                   pv |-> convertVertex(pp)]
  /\ UNCHANGED <<loaderVars, parseVars, mapVars, m_inter, m_vmode, m_w, m_h,
                 pBuf, pva>>

ConvertNext == ConvertCall

ConvertSpec == ConvertInit /\ [][ConvertNext]_vars

(***************************************************************************)
(* main of lilacme2png.c after the mesh is loaded: the buffer is made,     *)
(* the points are converted, the triangles are drawn one by one, the       *)
(* image is written.                                                       *)
(***************************************************************************)
\* The coordinates of the points of the meshes
MeshCoords == {0, 5462, LILAC_MESH_MAX_C}

\* What the loader makes of the point records pts followed by the triangle
\* records tris: [ok, M, um, pw, tw]
RECURSIVE LoadRecords(_, _, _)
LoadRecords(pts, tris, s) ==
  IF ~s.ok
    THEN s
  ELSE IF s.pw < Len(pts)
    THEN LET a == pts[s.pw + 1]
             r == op_p(a[1], a[2], a[3], a[4], s.M, s.pw)
         IN  LoadRecords(pts, tris,
                         [s EXCEPT !.ok = ~r.fault /\ (r.status # 0),
                                   !.M = r.M, !.pw = r.written])
  ELSE IF s.tw < Len(tris)
    THEN LET t == tris[s.tw + 1]
             r == op_t(t[1], t[2], t[3], s.M, s.pw, s.tw, s.um)
         IN  LoadRecords(pts, tris,
                         [s EXCEPT !.ok = ~r.fault /\ (r.status # 0),
                                   !.M = r.M, !.um = r.um, !.tw = r.written])
  ELSE [s EXCEPT !.ok = usage_map_orphan(s.um) = 0]

LoadMesh(pts, tris) ==
  LoadRecords(pts, tris,
              [ok |-> TRUE, M |-> NewMesh(Len(pts), Len(tris)),
               um |-> usage_map_dim(Len(pts)), pw |-> 0, tw |-> 0])

\* The files the meshes are loaded from: four points on MeshCoords with one
\* normal for all of them (normd = 0, and normd = LILAC_MESH_MAX_C when the
\* first point is the origin), and the two triangles 0 1 2 and 0 2 3
MeshFiles ==
  {[pts |-> <<<<nq[1], 0, nq[2][1], nq[2][2]>>,
              <<nq[1], 0, nq[2][3], nq[2][4]>>,
              <<nq[1], 0, nq[2][5], nq[2][6]>>,
              <<nq[1], 0, nq[2][7], nq[2][8]>>>>,
    tris |-> <<<<0, 1, 2>>, <<0, 2, 3>>>>] :
     nq \in {c \in {0, LILAC_MESH_MAX_C} \X [1 .. 8 -> MeshCoords] :
               (c[1] = 0) \/ ((c[2][1] = 0) /\ (c[2][2] = 0))}}

\* The meshes lilac_mesh_new returns for them
RenderMeshes ==
  {r.M : r \in {s \in {LoadMesh(f.pts, f.tris) : f \in MeshFiles} : s.ok}}

RenderInit ==
  /\ pc = "done"
  /\ LoaderIdle
  /\ um = usage_map_init
  /\ ParseOff
  /\ MapOff
  /\ pM \in RenderMeshes
  /\ \E md \in RenderModes : (m_inter = md[1]) /\ (m_vmode = md[2])
  /\ m_w = 0
  /\ m_h = 0
  /\ pBuf = <<>>
  /\ pva = <<>>
  /\ ren = [at |-> "initbuf", mask |-> {}, wr |-> <<>>]

\* Where main goes on when nconv vertices are converted and ntri triangles
\* are drawn
Stage(nconv, ntri) ==
  IF nconv < pM.point_count THEN "convert"
  ELSE IF ntri < pM.tri_count THEN "render"
  ELSE "write"

InitBufMask ==
  /\ ren.at = "initbuf"
  /\ \E masked \in MaskSets(RenderW, RenderH) :
       /\ pBuf' = NewBuffer(RenderW, RenderH, masked)
       /\ ren' = [ren EXCEPT !.at = Stage(0, 0), !.mask = masked]
  /\ m_w' = RenderW
  /\ m_h' = RenderH
  /\ UNCHANGED <<loaderVars, parseVars, mapVars, m_inter, m_vmode, pva>>

\* The sizes given on the command line: the size of the mask images, a
\* single column, a single row, and a buffer higher than wide
RenderSizes == {<<RenderW, RenderH>>, <<1, RenderH>>, <<RenderW, 1>>, <<2, 3>>}

InitBufDim ==
  /\ ren.at = "initbuf"
  /\ \E size \in RenderSizes :
       /\ pBuf' = NewBuffer(size[1], size[2], {})
       /\ m_w' = size[1]
       /\ m_h' = size[2]
  /\ ren' = [ren EXCEPT !.at = Stage(0, 0)]
  /\ UNCHANGED <<loaderVars, parseVars, mapVars, m_inter, m_vmode, pva>>

ConvertVertex ==
  /\ ren.at = "convert"
  /\ pva' = Append(pva, convertVertex(pM.pPoints[Len(pva)]))
  /\ ren' = [ren EXCEPT !.at = Stage(Len(pva) + 1, 0)]
  /\ UNCHANGED <<loaderVars, parseVars, mapVars, m_inter, m_vmode, m_w, m_h,
                 pBuf>>

RenderTri ==
  /\ ren.at = "render"
  /\ LET i == Len(ren.wr)
         r == renderTri(pBuf, pva[pM.pTris[i * 3] + 1],
                        pva[pM.pTris[(i * 3) + 1] + 1],
                        pva[pM.pTris[(i * 3) + 2] + 1])
     IN  /\ pBuf' = r.buf
         /\ ren' = [ren EXCEPT !.wr = Append(@, r.wr),
                               !.at = IF r.err THEN "error"
                                               ELSE Stage(Len(pva), i + 1)]
  /\ UNCHANGED <<loaderVars, parseVars, mapVars, m_inter, m_vmode, m_w, m_h,
                 pva>>

\* The vertex array and the mesh are released, and the scanlines of the
\* buffer are handed to the image writer
WriteImage ==
  /\ ren.at = "write"
  /\ pva' = <<>>
  /\ pM' = NullMesh
  /\ ren' = [ren EXCEPT !.at = "exit"]
  /\ UNCHANGED <<pc, src, lineno, i_pts, i_tris, point_count, tri_count,
                 points_written, tris_written, st, um, status, errCode,
                 line, call, hdr, rd, msg>>
  /\ UNCHANGED <<parseVars, mapVars, m_inter, m_vmode, m_w, m_h, pBuf>>

RenderNext ==
  InitBufMask \/ InitBufDim \/ ConvertVertex \/ RenderTri \/ WriteImage

RenderSpec == RenderInit /\ [][RenderNext]_vars

(***************************************************************************)
(* Vocabulary of the properties                                            *)
(***************************************************************************)
\* lilac_mesh_new has returned
Returned == pc \in {"done", "exit"}

\* lilac_mesh_new has returned a mesh
Loaded == Returned /\ pM.alloc

\* Triangle number i (from 0) of mesh M, as <<v1, v2, v3>>
MeshTri(M, i) == <<M.pTris[i * 3], M.pTris[(i * 3) + 1], M.pTris[(i * 3) + 2]>>

\* The directed edges v1->v2, v2->v3, v3->v1 of a triangle
DirEdges(t) == {<<t[1], t[2]>>, <<t[2], t[3]>>, <<t[3], t[1]>>}

\* The directed edges of the first n triangles of M
UsedEdges(M, n) == UNION {DirEdges(MeshTri(M, i)) : i \in 0 .. (n - 1)}

\* (x2-x1)(y3-y1) - (y2-y1)(x3-x1) on the stored integer coordinates
SignedArea(M, t) ==
  LET p1 == M.pPoints[t[1]]
      p2 == M.pPoints[t[2]]
      p3 == M.pPoints[t[3]]
  IN  ((p2.x - p1.x) * (p3.y - p1.y)) - ((p2.y - p1.y) * (p3.x - p1.x))

LexLess(a, b) == (a[1] < b[1]) \/ ((a[1] = b[1]) /\ (a[2] < b[2]))

\* The code of the first check of the triangle operation, in the order
\* PTREF, VXDUP, VXORD, ORIENT, TRSORT, TROVER, DUPEDG, that the operands t
\* fail on mesh M with pw points and tw triangles written; OK if none
FirstTriFailure(t, M, pw, tw) ==
  IF \E k \in 1 .. 3 : t[k] >= pw
    THEN LILAC_MESH_ERR_PTREF
  ELSE IF Cardinality({t[1], t[2], t[3]}) < 3
    THEN LILAC_MESH_ERR_VXDUP
  ELSE IF \E k \in 2 .. 3 : t[k] < t[1]
    THEN LILAC_MESH_ERR_VXORD
  ELSE IF SignedArea(M, t) <= 0
    THEN LILAC_MESH_ERR_ORIENT
  ELSE IF (tw > 0) /\ ~LexLess(MeshTri(M, tw - 1), t)
    THEN LILAC_MESH_ERR_TRSORT
  ELSE IF tw >= M.tri_count
    THEN LILAC_MESH_ERR_TROVER
  ELSE IF (DirEdges(t) \cap UsedEdges(M, tw)) # {}
    THEN LILAC_MESH_ERR_DUPEDG
  ELSE LILAC_MESH_ERR_OK

\* The last operation was a triangle operation that failed
TriRefused == Returned /\ (call.op = "t") /\ (call.res.status = 0)

(***************************************************************************)
(* Properties                                                              *)
(***************************************************************************)

\* C1: when lilac_mesh_new returns, it returns a mesh if and only if it has
\* written error code OK and line 0, and on every failure it returns NULL
\* with a nonzero error code.
C1_ReturnContract ==
  Returned =>
    /\ pM.alloc <=> ((errCode = LILAC_MESH_ERR_OK) /\ (line = 0))
    /\ (status = 0) => (~pM.alloc /\ (errCode # LILAC_MESH_ERR_OK))
    /\ (status # 0) => pM.alloc

C1_Witness ==
  Returned /\ (status = 0) /\ (call.op = "p") /\ (call.res.status = 0)

\* C2: every triangle operation reports the code of the earliest failing
\* check in the order PTREF, VXDUP, VXORD, ORIENT, TRSORT, TROVER, DUPEDG,
\* and succeeds only if no check fails.
C2_TriCheckOrder ==
  (call.op = "t") =>
    /\ call.res.err = FirstTriFailure(call.args, call.M, call.pw, call.tw)
    /\ (call.res.status = 0) <=> (call.res.err # LILAC_MESH_ERR_OK)
    /\ TriRefused => (errCode = call.res.err)

\* an out-of-order triangle beyond the declared count: TRSORT, not TROVER
C2_Witness ==
  /\ TriRefused
  /\ errCode = LILAC_MESH_ERR_TRSORT
  /\ call.tw >= call.M.tri_count

\* C3: in a loaded mesh every triangle has its three indices below
\* point_count and pairwise distinct, and v1 < v2 and v1 < v3.
C3_TriIndices ==
  Loaded =>
    \A i \in 0 .. (pM.tri_count - 1) :
      LET t == MeshTri(pM, i)
      IN  /\ \A k \in 1 .. 3 : (t[k] >= 0) /\ (t[k] < pM.point_count)
          /\ (t[1] # t[2]) /\ (t[2] # t[3]) /\ (t[1] # t[3])
          /\ (t[1] < t[2]) /\ (t[1] < t[3])

C3_Witness ==
  /\ Loaded
  /\ pM.tri_count >= 2
  /\ \E i \in 0 .. (pM.tri_count - 1) : MeshTri(pM, i)[3] < MeshTri(pM, i)[2]

\* C4: in a loaded mesh every triangle has a signed area, computed on the
\* stored integer coordinates, that is strictly positive; a triangle
\* operation on three distinct indices in order whose points are colinear
\* or coincide is refused with ORIENT.
C4_Orientation ==
  /\ Loaded =>
       \A i \in 0 .. (pM.tri_count - 1) : SignedArea(pM, MeshTri(pM, i)) > 0
  /\ ((call.op = "t")
        /\ (\A k \in 1 .. 3 : call.args[k] < call.pw)
        /\ (Cardinality({call.args[1], call.args[2], call.args[3]}) = 3)
        /\ (call.args[1] < call.args[2]) /\ (call.args[1] < call.args[3])
        /\ (SignedArea(call.M, call.args) = 0))
       => ((call.res.status = 0) /\ (call.res.err = LILAC_MESH_ERR_ORIENT))

\* refused: three points at different positions on one line
C4_Witness ==
  /\ TriRefused
  /\ errCode = LILAC_MESH_ERR_ORIENT
  /\ SignedArea(call.M, call.args) = 0
  /\ LET P(k) == <<call.M.pPoints[call.args[k]].x,
                   call.M.pPoints[call.args[k]].y>>
     IN  Cardinality({P(1), P(2), P(3)}) = 3

\* C5: in a loaded mesh the pair (v1, v2) of each triangle is strictly
\* lexicographically less than the pair (v1, v2) of the next triangle.
C5_TriSorted ==
  Loaded =>
    \A i \in 0 .. (pM.tri_count - 2) :
      LexLess(MeshTri(pM, i), MeshTri(pM, i + 1))

C5_Witness ==
  /\ Loaded
  /\ pM.tri_count = 3
  /\ MeshTri(pM, 0)[1] = MeshTri(pM, 1)[1]
  /\ MeshTri(pM, 1)[1] < MeshTri(pM, 2)[1]

\* C6: in a loaded mesh no directed edge occurs twice over all triangles,
\* so an undirected edge occurs in at most two triangles, and in two only
\* in opposite directions.
C6_DirectedEdgesUnique ==
  Loaded =>
    LET T == 0 .. (pM.tri_count - 1)
        Has(i, e) == e \in DirEdges(MeshTri(pM, i))
    IN  /\ \A i, j \in T :
             (i # j) => (DirEdges(MeshTri(pM, i)) \cap DirEdges(MeshTri(pM, j)) = {})
        /\ \A i \in T : Cardinality(DirEdges(MeshTri(pM, i))) = 3
        /\ \A a, b \in 0 .. (pM.point_count - 1) :
             LET S == {i \in T : Has(i, <<a, b>>) \/ Has(i, <<b, a>>)}
             IN  /\ Cardinality(S) <= 2
                 /\ (Cardinality(S) = 2) =>
                      \E i, j \in S : (i # j) /\ Has(i, <<a, b>>) /\ Has(j, <<b, a>>)

\* two triangles of a loaded mesh share an edge, in opposite directions
C6_Witness ==
  /\ Loaded
  /\ \E i, j \in 0 .. (pM.tri_count - 1) :
       \E e \in DirEdges(MeshTri(pM, i)) :
         (i # j) /\ (<<e[2], e[1]>> \in DirEdges(MeshTri(pM, j)))

\* C7: in a loaded mesh the point indices that are a vertex of some
\* triangle are exactly 0 .. point_count-1.
C7_NoOrphan ==
  Loaded =>
    {MeshTri(pM, i)[k] : i \in 0 .. (pM.tri_count - 1), k \in 1 .. 3}
      = 0 .. (pM.point_count - 1)

C7_Witness == Loaded /\ (pM.point_count = 5) /\ (pM.tri_count = 3)

\* C8: in a loaded mesh every point has normd, norma, x and y in
\* 0 .. C_MAX, norma < C_MAX, and norma = 0 if normd = 0.
C8_PointRanges ==
  Loaded =>
    \A i \in 0 .. (pM.point_count - 1) :
      LET p == pM.pPoints[i]
      IN  /\ \A f \in {p.normd, p.norma, p.x, p.y} :
               (f >= 0) /\ (f <= LILAC_MESH_MAX_C)
          /\ p.norma < LILAC_MESH_MAX_C
          /\ (p.normd = 0) => (p.norma = 0)

C8_Witness ==
  /\ Loaded
  /\ \E i \in 0 .. (pM.point_count - 1) :
       (pM.pPoints[i].normd # 0) /\ (pM.pPoints[i].norma # 0)

\* The square of the format description has been read, its two triangles
\* 0 1 2 and 0 2 3 have been accepted, and the next triangle operation has
\* operands with the directed edge 0->2 among v1->v2, v2->v3, v3->v1
QuadThenEdge02 ==
  /\ call.op = "t"
  /\ call.pw >= 4
  /\ \A i \in 0 .. 3 :
       /\ call.M.pPoints[i].x = QuadPoints[i + 1][3]
       /\ call.M.pPoints[i].y = QuadPoints[i + 1][4]
  /\ call.tw = 2
  /\ MeshTri(call.M, 0) = <<0, 1, 2>>
  /\ MeshTri(call.M, 1) = <<0, 2, 3>>
  /\ <<0, 2>> \in DirEdges(call.args)

\* The operands of the last triangle operation are a triangle in its own
\* right: three written points, distinct, the first the least, and
\* counter-clockwise
ExtraWellFormed ==
  /\ \A k \in 1 .. 3 : call.args[k] < call.pw
  /\ Cardinality({call.args[1], call.args[2], call.args[3]}) = 3
  /\ (call.args[1] < call.args[2]) /\ (call.args[1] < call.args[3])
  /\ SignedArea(call.M, call.args) > 0

\* C9 as stated: the quad plus an extra triangle that reuses the directed
\* edge 0->2 in the same direction fails with DUPEDG.
C9_Original ==
  (QuadThenEdge02 /\ ExtraWellFormed) =>
    (Returned /\ (status = 0) /\ (errCode = LILAC_MESH_ERR_DUPEDG))

\* C9 amended: the quad followed by an extra triangle that reuses the
\* directed edge 0->2 in the same direction fails, never with DUPEDG: with
\* TRSORT if the extra triangle passes the checks PTREF, VXDUP, VXORD and
\* ORIENT (its pair (v1, v2) is then (0, 2), the pair of the triangle before
\* it), and else with the code of the first of these four checks it fails.
C9_QuadExtraTriangle ==
  QuadThenEdge02 =>
    /\ Returned /\ (status = 0) /\ ~pM.alloc
    /\ errCode # LILAC_MESH_ERR_DUPEDG
    /\ errCode \in {LILAC_MESH_ERR_PTREF, LILAC_MESH_ERR_VXDUP,
                    LILAC_MESH_ERR_VXORD, LILAC_MESH_ERR_ORIENT,
                    LILAC_MESH_ERR_TRSORT}
    /\ (errCode = LILAC_MESH_ERR_TRSORT) <=> ExtraWellFormed

\* the extra triangle 0 2 3 where the header declares room for it
C9_Witness ==
  /\ QuadThenEdge02
  /\ call.args = <<0, 2, 3>>
  /\ call.M.tri_count = 3
  /\ errCode = LILAC_MESH_ERR_TRSORT

\* C10: a triangle operation that passes the checks PTREF to TROVER and has
\* a directed edge that an accepted triangle has already used fails the
\* load with DUPEDG, and the triangle is not appended; this includes the
\* last declared triangle.
C10_DupEdgeRefused ==
  ((call.op = "t")
     /\ (FirstTriFailure(call.args, call.M, call.pw, call.tw)
           \in {LILAC_MESH_ERR_DUPEDG, LILAC_MESH_ERR_OK})
     /\ ((DirEdges(call.args) \cap UsedEdges(call.M, call.tw)) # {}))
    => /\ call.res.status = 0
       /\ call.res.err = LILAC_MESH_ERR_DUPEDG
       /\ call.res.M = call.M
       /\ call.res.written = call.tw
       /\ Returned /\ ~pM.alloc
       /\ errCode = LILAC_MESH_ERR_DUPEDG
       /\ tris_written = call.tw

\* the last declared triangle, whose only used edge is its third, v3->v1
C10_Witness ==
  /\ TriRefused
  /\ errCode = LILAC_MESH_ERR_DUPEDG
  /\ call.tw = call.M.tri_count - 1
  /\ <<call.args[1], call.args[2]>> \notin UsedEdges(call.M, call.tw)
  /\ <<call.args[2], call.args[3]>> \notin UsedEdges(call.M, call.tw)

\* The code of the first check of the point operation, in the order
\* NORMDA, NORM2P, PTOVER, that the operands a fail on mesh M with pw points
\* written; OK if none
FirstPointFailure(a, M, pw) ==
  IF (a[1] = 0) /\ (a[2] # 0)
    THEN LILAC_MESH_ERR_NORMDA
  ELSE IF a[2] >= LILAC_MESH_MAX_C
    THEN LILAC_MESH_ERR_NORM2P
  ELSE IF pw >= M.point_count
    THEN LILAC_MESH_ERR_PTOVER
  ELSE LILAC_MESH_ERR_OK

\* The last operation was a point operation that failed
PointRefused == Returned /\ (call.op = "p") /\ (call.res.status = 0)

\* C11: every point operation reports the code of the earliest failing
\* check in the order NORMDA, NORM2P, PTOVER (so normd = 0 with norma = C_MAX
\* is NORMDA, and a bad normal beyond the declared count is not PTOVER), and
\* the point is written at index points_written, which then grows by one,
\* only if no check fails.
C11_PointCheckOrder ==
  (call.op = "p") =>
    /\ call.res.err = FirstPointFailure(call.args, call.M, call.pw)
    /\ (call.res.status = 0) <=> (call.res.err # LILAC_MESH_ERR_OK)
    /\ PointRefused => (errCode = call.res.err)
    /\ (call.res.status = 0) =>
         ((call.res.M = call.M) /\ (call.res.written = call.pw))
    /\ (call.res.status # 0) =>
         /\ call.res.written = call.pw + 1
         /\ call.res.M.pPoints[call.pw] =
              [normd |-> call.args[1], norma |-> call.args[2],
               x |-> call.args[3], y |-> call.args[4]]
         /\ \A i \in 0 .. (call.M.point_count - 1) :
              (i # call.pw) => (call.res.M.pPoints[i] = call.M.pPoints[i])
         /\ call.res.M.pTris = call.M.pTris

\* normd = 0 with norma = C_MAX on a point beyond the declared count
C11_Witness ==
  /\ PointRefused
  /\ call.args[1] = 0
  /\ call.args[2] = LILAC_MESH_MAX_C
  /\ call.pw >= call.M.point_count
  /\ errCode = LILAC_MESH_ERR_NORMDA

\* A token of decimal digits only, at least one
DigitsOnly(t) == (Len(t) > 0) /\ (\A i \in 1 .. Len(t) : t[i] \in 48 .. 57)

\* The integer a token of decimal digits denotes
RECURSIVE DecValue(_)
DecValue(t) ==
  IF Len(t) = 0
    THEN 0
    ELSE (DecValue(SubSeq(t, 1, Len(t) - 1)) * 10) + (t[Len(t)] - 48)

\* The names of the eight header steps, in order
HeaderSteps ==
  <<"sig_begin", "sig_token", "sig_end", "dim_begin", "dim_token",
    "dim_pts", "dim_tris", "dim_end">>

\* The code header step k gives entity e, which is no tokenizer error; OK if
\* the entity is what the step expects
StepCode(k, e) ==
  CASE k = 1 -> IF e.status = SNENTITY.BEGIN_META
                  THEN LILAC_MESH_ERR_OK ELSE LILAC_MESH_ERR_NOSIG
    [] k = 2 -> IF (e.status = SNENTITY.META_TOKEN) /\ (e.pKey = KEY_SIGNATURE)
                  THEN LILAC_MESH_ERR_OK ELSE LILAC_MESH_ERR_NOSIG
    [] k = 3 -> IF e.status = SNENTITY.END_META
                  THEN LILAC_MESH_ERR_OK ELSE LILAC_MESH_ERR_SIGVER
    [] k = 4 -> IF e.status = SNENTITY.BEGIN_META
                  THEN LILAC_MESH_ERR_OK ELSE LILAC_MESH_ERR_NODIM
    [] k = 5 -> IF (e.status = SNENTITY.META_TOKEN) /\ (e.pKey = KEY_DIM)
                  THEN LILAC_MESH_ERR_OK ELSE LILAC_MESH_ERR_NODIM
    [] k \in {6, 7} ->
         IF e.status # SNENTITY.META_TOKEN
           THEN LILAC_MESH_ERR_BADDIM
         ELSE IF ~(DigitsOnly(e.pKey) /\ (DecValue(e.pKey) <= LILAC_MESH_MAX_C))
           THEN LILAC_MESH_ERR_DIMVAL
         ELSE LILAC_MESH_ERR_OK
    [] OTHER -> IF e.status = SNENTITY.END_META
                  THEN LILAC_MESH_ERR_OK ELSE LILAC_MESH_ERR_BADDIM

\* Header step k has read what it expects
StepMet(k) ==
  (hdr[k].status >= 0) /\ (StepCode(k, hdr[k]) = LILAC_MESH_ERR_OK)

\* The load has failed at its last read, a read of the header
HeaderFailed == Returned /\ (status = 0) /\ (rd.at # "body")

\* C12: the header is read in step order, a step is read only if every
\* step before it has read what it expects, and a step that reads another
\* entity (no tokenizer error) fails the load with its code: NOSIG for steps
\* 1 and 2, SIGVER for 3, NODIM for 4 and 5, BADDIM or DIMVAL for 6 and 7,
\* BADDIM for 8; PCOUNT and TCOUNT are reported, PCOUNT first, only when all
\* eight steps have read what they expect.
C12_HeaderStepOrder ==
  /\ Len(hdr) <= 8
  /\ \A k \in 1 .. (Len(hdr) - 1) : StepMet(k)
  /\ (rd.at # "body") /\ (Len(hdr) > 0) => (rd.at = HeaderSteps[Len(hdr)])
  /\ (rd.at = "body") => ((Len(hdr) = 8) /\ StepMet(8))
  /\ ((Len(hdr) > 0) /\ (rd.at # "body") /\ (hdr[Len(hdr)].status >= 0)
        /\ ~StepMet(Len(hdr)))
       => (HeaderFailed /\ (errCode = StepCode(Len(hdr), hdr[Len(hdr)])))
  /\ (errCode \in {LILAC_MESH_ERR_PCOUNT, LILAC_MESH_ERR_TCOUNT})
       => ((Len(hdr) = 8) /\ StepMet(8) /\ HeaderFailed)
  /\ ((Len(hdr) = 8) /\ StepMet(8)) =>
       LET p == DecValue(hdr[6].pKey)
           t == DecValue(hdr[7].pKey)
       IN  /\ (p > LILAC_MESH_MAX_POINTS) =>
                (HeaderFailed /\ (errCode = LILAC_MESH_ERR_PCOUNT))
           /\ ((p <= LILAC_MESH_MAX_POINTS) /\ (t > LILAC_MESH_MAX_TRIS)) =>
                (HeaderFailed /\ (errCode = LILAC_MESH_ERR_TCOUNT))
           /\ ((p <= LILAC_MESH_MAX_POINTS) /\ (t <= LILAC_MESH_MAX_TRIS)) =>
                (~HeaderFailed /\ (point_count = p) /\ (tri_count = t))

\* both counts are out of range and the end-metacommand was read: PCOUNT
C12_Witness ==
  /\ HeaderFailed
  /\ Len(hdr) = 8
  /\ hdr[8].status = SNENTITY.END_META
  /\ DecValue(hdr[6].pKey) > LILAC_MESH_MAX_POINTS
  /\ DecValue(hdr[7].pKey) > LILAC_MESH_MAX_TRIS
  /\ errCode = LILAC_MESH_ERR_PCOUNT

\* Header step k has read a token of decimal digits
CountToken(k) ==
  /\ Len(hdr) >= k
  /\ hdr[k].status = SNENTITY.META_TOKEN
  /\ DigitsOnly(hdr[k].pKey)

\* All that was read of the header after step k is what its step expects
RestMet(k) == \A j \in (k + 1) .. Len(hdr) : StepMet(j)

\* C13 as stated: a declared point count that is a decimal integer above
\* P_MAX fails the load with PCOUNT, and a declared triangle count that is
\* a decimal integer above T_MAX (the point count being in range) fails it
\* with TCOUNT, whatever the integer.
C13_Original ==
  Returned =>
    /\ (CountToken(6) /\ (DecValue(hdr[6].pKey) > LILAC_MESH_MAX_POINTS)
          /\ RestMet(6))
         => ((status = 0) /\ (errCode = LILAC_MESH_ERR_PCOUNT))
    /\ (CountToken(6) /\ (DecValue(hdr[6].pKey) <= LILAC_MESH_MAX_POINTS)
          /\ CountToken(7) /\ (DecValue(hdr[7].pKey) > LILAC_MESH_MAX_TRIS)
          /\ RestMet(7))
         => ((status = 0) /\ (errCode = LILAC_MESH_ERR_TCOUNT))

\* C13 amended: a declared point count that is a decimal integer above
\* P_MAX and at most C_MAX fails the load with PCOUNT, and a declared
\* triangle count above T_MAX and at most C_MAX (the point count being in
\* range) fails it with TCOUNT, in both cases once the end-metacommand has
\* been read; a count above C_MAX is refused when it is read, with DIMVAL.
C13_DeclaredCounts ==
  /\ \A k \in {6, 7} :
       (CountToken(k) /\ (DecValue(hdr[k].pKey) > LILAC_MESH_MAX_C))
         => /\ HeaderFailed
            /\ errCode = LILAC_MESH_ERR_DIMVAL
            /\ Len(hdr) = k
  /\ (CountToken(6) /\ (DecValue(hdr[6].pKey) > LILAC_MESH_MAX_POINTS)
        /\ (DecValue(hdr[6].pKey) <= LILAC_MESH_MAX_C)
        /\ (Len(hdr) = 8) /\ RestMet(6))
       => (HeaderFailed /\ (errCode = LILAC_MESH_ERR_PCOUNT))
  /\ (CountToken(6) /\ (DecValue(hdr[6].pKey) <= LILAC_MESH_MAX_POINTS)
        /\ CountToken(7) /\ (DecValue(hdr[7].pKey) > LILAC_MESH_MAX_TRIS)
        /\ (DecValue(hdr[7].pKey) <= LILAC_MESH_MAX_C)
        /\ (Len(hdr) = 8) /\ RestMet(7))
       => (HeaderFailed /\ (errCode = LILAC_MESH_ERR_TCOUNT))
  /\ (HeaderFailed /\ (errCode = LILAC_MESH_ERR_PCOUNT))
       => (DecValue(hdr[6].pKey) \in
             (LILAC_MESH_MAX_POINTS + 1) .. LILAC_MESH_MAX_C)
  /\ (HeaderFailed /\ (errCode = LILAC_MESH_ERR_TCOUNT))
       => (DecValue(hdr[7].pKey) \in
             (LILAC_MESH_MAX_TRIS + 1) .. LILAC_MESH_MAX_C)

\* the largest count the decimal parse accepts, as the triangle count
C13_Witness ==
  /\ HeaderFailed
  /\ errCode = LILAC_MESH_ERR_TCOUNT
  /\ DecValue(hdr[7].pKey) = LILAC_MESH_MAX_C
  /\ DecValue(hdr[6].pKey) = LILAC_MESH_MAX_POINTS

\* The last read was the end of input, in the body: the final checks ran
AtEnd == Returned /\ (rd.at = "body") /\ (rd.ent.status = SNENTITY.EOF)

\* Some index below point_count is a vertex of none of the first n
\* triangles of M
HasOrphan(M, n) ==
  \E v \in 0 .. (M.point_count - 1) :
    \A i \in 0 .. (n - 1), k \in 1 .. 3 : MeshTri(M, i)[k] # v

\* The code of the first final check that fails, in the order REM, PUNDEF,
\* TUNDEF, ORPHAN, for the state the end of input was read in; OK if none
FinalVerdict ==
  IF Len(rd.st) > 0
    THEN LILAC_MESH_ERR_REM
  ELSE IF points_written # point_count
    THEN LILAC_MESH_ERR_PUNDEF
  ELSE IF tris_written # tri_count
    THEN LILAC_MESH_ERR_TUNDEF
  ELSE IF HasOrphan(rd.M, tris_written)
    THEN LILAC_MESH_ERR_ORPHAN
  ELSE LILAC_MESH_ERR_OK

\* C14: when the end of input is read in the body, the load reports the
\* first failing check in the order REM, PUNDEF, TUNDEF, ORPHAN; it
\* succeeds only at the end of input, with an empty stack and exactly
\* point_count points and tri_count triangles written.
C14_FinalChecks ==
  /\ AtEnd =>
       /\ errCode = FinalVerdict
       /\ (status # 0) <=> (FinalVerdict = LILAC_MESH_ERR_OK)
       /\ pM.alloc <=> (FinalVerdict = LILAC_MESH_ERR_OK)
  /\ Loaded =>
       /\ AtEnd
       /\ Len(st) = 0
       /\ points_written = point_count
       /\ tris_written = tri_count
       /\ (pM.point_count = point_count) /\ (pM.tri_count = tri_count)

\* values are left on the stack and points and triangles are missing: REM
C14_Witness ==
  /\ AtEnd
  /\ Len(rd.st) > 0
  /\ points_written # point_count
  /\ tris_written # tri_count
  /\ errCode = LILAC_MESH_ERR_REM

\* C15: when the end of input is read with an empty stack and the declared
\* numbers of points and triangles written, the load fails with ORPHAN if
\* some index below point_count is a vertex of no accepted triangle, and
\* succeeds if there is none; this holds for point counts beyond one word
\* of the usage bitmap as well.
C15_OrphanIff ==
  (AtEnd /\ (Len(rd.st) = 0) /\ (points_written = point_count)
     /\ (tris_written = tri_count))
    => /\ HasOrphan(rd.M, tris_written)
            <=> ((status = 0) /\ (errCode = LILAC_MESH_ERR_ORPHAN))
       /\ ~HasOrphan(rd.M, tris_written) <=> Loaded

\* a fan of 32 points whose last point is in no triangle: the orphan is in
\* a full word of the bitmap
C15_Witness ==
  /\ AtEnd
  /\ errCode = LILAC_MESH_ERR_ORPHAN
  /\ point_count >= 32
  /\ point_count % 32 = 0
  /\ tris_written = tri_count

\* C16: a read that returns a negative status, at any step of the header or
\* in the body, fails the load with that status as the error code; every
\* other failure has an error code of the loader, which is positive.
C16_TokenizerErrors ==
  /\ ((rd.at # "none") /\ (rd.ent.status < 0))
       => /\ Returned /\ (status = 0) /\ ~pM.alloc
          /\ errCode = rd.ent.status
  /\ (Returned /\ (status = 0) /\ (rd.ent.status >= 0))
       => /\ errCode > 0
          /\ errCode \in LILAC_MESH_ERR_REM .. LILAC_MESH_ERR_TROVER

\* a tokenizer error in the body, inside a record
C16_Witness ==
  /\ Returned
  /\ rd.at = "body"
  /\ rd.ent.status < 0
  /\ Len(rd.st) > 0
  /\ errCode = rd.ent.status

\* The line the loader reports for the tokenizer's line count l
ReportedLine(l) == IF (l >= 1) /\ (l < LONG_MAX) THEN l ELSE 0

\* C17: the line reported with a failure is 0, or the tokenizer's line count
\* after the failing read and then at least 1 and below LONG_MAX; the
\* failures at the end of input (REM, PUNDEF, TUNDEF, ORPHAN) report 0, and
\* a failure at an entity of the body reports the tokenizer's line count, or
\* 0 if that is out of range.  A successful load reports 0.
C17_ReportedLine ==
  Returned =>
    /\ (line = 0) \/ ((line = rd.line) /\ (line >= 1) /\ (line < LONG_MAX))
    /\ (status # 0) => (line = 0)
    /\ (errCode \in {LILAC_MESH_ERR_REM, LILAC_MESH_ERR_PUNDEF,
                      LILAC_MESH_ERR_TUNDEF, LILAC_MESH_ERR_ORPHAN})
         => (AtEnd /\ (line = 0))
    /\ ((status = 0) /\ (rd.at = "body") /\ (rd.ent.status # SNENTITY.EOF))
         => (line = ReportedLine(rd.line))
    /\ ((status = 0) /\ (rd.ent.status < 0)) => (line = ReportedLine(rd.line))

\* an entity of the body fails where the line count has reached LONG_MAX
C17_Witness ==
  /\ Returned
  /\ status = 0
  /\ rd.at = "body"
  /\ rd.ent.status > 0
  /\ rd.line = LONG_MAX
  /\ line = 0

\* The message printed for a failed load
Reported == pc = "exit"

\* C18 as stated: the message lilac_mesh_errstr gives for an error code of
\* the loader, REM = 1 to TROVER = 26, is not "Unknown error" and is the
\* message of no other code.
C18_Original ==
  (Reported /\ (errCode \in LILAC_MESH_ERR_REM .. LILAC_MESH_ERR_TROVER))
    => /\ msg.text = lilac_mesh_errstr(errCode)
       /\ msg.text # "Unknown error"
       /\ \A c \in (LILAC_MESH_ERR_OK .. LILAC_MESH_ERR_TROVER) \ {errCode} :
            lilac_mesh_errstr(c) # msg.text

\* a load that failed with TROVER has been reported
C18_Witness ==
  Reported /\ (errCode = LILAC_MESH_ERR_TROVER) /\ (msg.text = "Unknown error")

\* A token the decimal parse accepts
Parsable(t) == DigitsOnly(t) /\ (DecValue(t) <= LILAC_MESH_MAX_C)

\* The last read was a numeric literal of the body
NumericRead == (rd.at = "body") /\ (rd.ent.status = SNENTITY.NUMERIC)

\* The load goes on after the last read
GoesOn == (pc = "body") /\ (status # 0)

\* C19: the stack never holds more than 16 values; a numeric literal that
\* is malformed fails the load with NUMBER, full stack or not; a well-formed
\* one fails it with OVERFL if the stack holds 16 values and else is pushed.
C19_StackBound ==
  /\ (Len(st) >= 0) /\ (Len(st) <= MAX_SN_STACK)
  /\ NumericRead =>
       IF ~Parsable(rd.ent.pKey)
         THEN Returned /\ (status = 0) /\ (errCode = LILAC_MESH_ERR_NUMBER)
       ELSE IF Len(rd.st) = MAX_SN_STACK
         THEN Returned /\ (status = 0) /\ (errCode = LILAC_MESH_ERR_OVERFL)
       ELSE GoesOn /\ (st = Append(rd.st, DecValue(rd.ent.pKey)))

\* a malformed literal is read when the stack is full
C19_Witness ==
  /\ NumericRead
  /\ Len(rd.st) = MAX_SN_STACK
  /\ ~Parsable(rd.ent.pKey)
  /\ errCode = LILAC_MESH_ERR_NUMBER

\* The last read was the operation named key
OpRead(key) ==
  (rd.at = "body") /\ (rd.ent.status = SNENTITY.OPERATION) /\ (rd.ent.pKey = key)

\* The stack of the last read without its n newest values
Beneath(n) == SubSeq(rd.st, 1, Len(rd.st) - n)

\* C20: operation p with fewer than 4 values on the stack, and operation t
\* with fewer than 3, fail the load with UNDERF; otherwise the operands are
\* the newest values in the order they were pushed (the newest is y, or v3),
\* and when the operation succeeds the stack is left without them and
\* otherwise as it was.
C20_OperandsFromTop ==
  /\ OpRead(KEY_P) =>
       LET h == Len(rd.st)
       IN  IF h < 4
             THEN Returned /\ (status = 0) /\ (errCode = LILAC_MESH_ERR_UNDERF)
             ELSE /\ call.op = "p"
                  /\ call.args = <<rd.st[h - 3], rd.st[h - 2], rd.st[h - 1],
                                   rd.st[h]>>
                  /\ GoesOn =>
                       /\ st = Beneath(4)
                       /\ points_written = call.pw + 1
                       /\ pM.pPoints[call.pw] =
                            [normd |-> rd.st[h - 3], norma |-> rd.st[h - 2],
                             x |-> rd.st[h - 1], y |-> rd.st[h]]
  /\ OpRead(KEY_T) =>
       LET h == Len(rd.st)
       IN  IF h < 3
             THEN Returned /\ (status = 0) /\ (errCode = LILAC_MESH_ERR_UNDERF)
             ELSE /\ call.op = "t"
                  /\ call.args = <<rd.st[h - 2], rd.st[h - 1], rd.st[h]>>
                  /\ GoesOn =>
                       /\ st = Beneath(3)
                       /\ tris_written = call.tw + 1
                       /\ MeshTri(pM, call.tw) =
                            <<rd.st[h - 2], rd.st[h - 1], rd.st[h]>>
  /\ ((OpRead(KEY_P) \/ OpRead(KEY_T)) /\ ~GoesOn) => (st = rd.st)

\* a triangle is accepted and leaves values on the stack
C20_Witness ==
  /\ OpRead(KEY_T)
  /\ GoesOn
  /\ Len(rd.st) > 3
  /\ st = Beneath(3)
  /\ st # <<>>

\* The last read was an entity of the body of a kind the loop has no case for
OtherRead ==
  /\ rd.at = "body"
  /\ rd.ent.status > 0
  /\ rd.ent.status \notin {SNENTITY.NUMERIC, SNENTITY.OPERATION}

\* The last read was an operation of the body that is neither p nor t
UnknownOpRead ==
  /\ rd.at = "body"
  /\ rd.ent.status = SNENTITY.OPERATION
  /\ rd.ent.pKey \notin {KEY_P, KEY_T}

\* C21: a body entity that is not a numeric literal, an operation, the end
\* of input or a tokenizer error fails the load with ETYPE; an operation
\* other than p and t fails it with BADOP whatever the stack holds, so with
\* BADOP and not UNDERF when the stack is empty.  The stack is left alone.
C21_EntityDispatch ==
  /\ OtherRead =>
       /\ Returned /\ (status = 0) /\ (errCode = LILAC_MESH_ERR_ETYPE)
       /\ st = rd.st
  /\ UnknownOpRead =>
       /\ Returned /\ (status = 0) /\ (errCode = LILAC_MESH_ERR_BADOP)
       /\ st = rd.st

\* an unknown operation is read when the stack is empty
C21_Witness ==
  /\ UnknownOpRead
  /\ rd.st = <<>>
  /\ errCode = LILAC_MESH_ERR_BADOP

\* What parseNumber is to return for the string t
NumberOf(t) == IF Parsable(t) THEN DecValue(t) ELSE -1

\* C22: parseNumber accepts a string exactly when it is not empty, holds
\* decimal digits only and denotes a value of at most LILAC_MESH_MAX_C, and
\* then returns that value, zeros at the front included; it returns -1 for
\* every other string, the empty one included.  However long the string,
\* result never exceeds 10 * LILAC_MESH_MAX_C + 9, which fits 32 bits,
\* because it is at most LILAC_MESH_MAX_C whenever a digit is added.
C22_ParseNumber ==
  /\ pn.result >= -1
  /\ pn.result <= (10 * LILAC_MESH_MAX_C) + 9
  /\ (10 * LILAC_MESH_MAX_C) + 9 <= INT32_MAX
  /\ (pn.at = "loop") => (pn.result >= 0) /\ (pn.result <= LILAC_MESH_MAX_C)
  /\ (pn.at = "ret") =>
       /\ pn.result = NumberOf(pn.pstr)
       /\ pn.result = parseNumber(pn.pstr)

\* the largest value with zeros before it is accepted
C22_Witness ==
  /\ pn.at = "ret"
  /\ Len(pn.pstr) > 5
  /\ pn.pstr[1] = 48
  /\ pn.result = LILAC_MESH_MAX_C

\* The last point written so far was written after a triangle
Interleaved == (call.op # "none") /\ call.mixed

\* C23: point and triangle operations may come in any order.  A triangle
\* given while points are still to come is judged by the points written so
\* far and by the rules of every triangle, a point given after a triangle by
\* the rules of every point, and a body in which a triangle precedes a point
\* loads when the final checks find nothing.
C23_Interleaving ==
  /\ ((call.op = "t") /\ (call.pw < call.M.point_count)) =>
       ((call.res.status # 0)
          <=> (FirstTriFailure(call.args, call.M, call.pw, call.tw)
                 = LILAC_MESH_ERR_OK))
  /\ ((call.op = "p") /\ (call.tw > 0)) =>
       /\ (call.res.status # 0)
            <=> (FirstPointFailure(call.args, call.M, call.pw)
                   = LILAC_MESH_ERR_OK)
       /\ (call.res.status # 0) => call.mixed
  /\ (AtEnd /\ Interleaved) =>
       (Loaded <=> (FinalVerdict = LILAC_MESH_ERR_OK))

\* a mesh is loaded from a body that has a point after a triangle
C23_Witness ==
  /\ Loaded
  /\ Interleaved
  /\ pM.point_count > 3
  /\ pM.tri_count > 1

\* The end of input is the first entity of the body of a file that
\* declares no point and no triangle
EmptyBodyEnd ==
  /\ AtEnd
  /\ call = NoCall
  /\ rd.st = <<>>
  /\ rd.M.alloc
  /\ rd.M.point_count = 0
  /\ rd.M.tri_count = 0

\* C24: a file with a valid signature, %dim 0 0; and an empty body loads:
\* the mesh has both counts 0 and neither array, and no word of a usage
\* bitmap is read, the usage map of no points having no words.
C24_EmptyMesh ==
  /\ EmptyBodyEnd =>
       /\ Loaded
       /\ status # 0
       /\ errCode = LILAC_MESH_ERR_OK
       /\ pM.point_count = 0
       /\ pM.tri_count = 0
       /\ DOMAIN pM.pPoints = {}
       /\ DOMAIN pM.pTris = {}
  /\ (pM.alloc /\ (pM.point_count = 0)) =>
       /\ DOMAIN um.pPointUse = {}
       /\ DOMAIN um.pEdgeUse = {}
       /\ usage_map_orphan(um) = 0

\* the empty mesh is loaded
C24_Witness ==
  /\ EmptyBodyEnd
  /\ Loaded
  /\ Len(hdr) = 8
  /\ hdr[6].pKey = <<48>>
  /\ hdr[7].pKey = <<48>>

\* Call number k on the usage map was given two indices of the map
InRange(k) == IndexOk(um, uh[k].i1) /\ IndexOk(um, uh[k].i2)

\* Call number k names an ordered pair that no earlier call named
FirstOfPair(k) ==
  \A e \in 1 .. (k - 1) : (uh[e].i1 # uh[k].i1) \/ (uh[e].i2 # uh[k].i2)

\* The word and the bit usage_map_edge uses for the pair (i, j)
EdgeBit(i, j) ==
  LET ix == (i * um.point_count) + j
  IN  <<ix \div 32, 31 - (ix % 32)>>

\* C29: in any sequence of calls of usage_map_edge on a map for n points,
\* the call for the ordered pair (i, j) of distinct points returns true
\* exactly when it is the first call for (i, j), whatever other calls are
\* made, those for (j, i) included; distinct ordered pairs have distinct
\* bits i * n + j, and the bits set are those of the pairs named.
C29_EdgeOnce ==
  /\ \A k \in 1 .. Len(uh) :
       (InRange(k) /\ (uh[k].i1 # uh[k].i2)) =>
         /\ ~uh[k].fault
         /\ (uh[k].status = 1) <=> FirstOfPair(k)
         /\ (uh[k].status = 0) <=> ~FirstOfPair(k)
  /\ \A i, j, a, b \in 0 .. (um.point_count - 1) :
       (EdgeBit(i, j) = EdgeBit(a, b)) => ((i = a) /\ (j = b))
  /\ \A i, j \in 0 .. (um.point_count - 1) :
       (EdgeBit(i, j)[2] \in um.pEdgeUse[EdgeBit(i, j)[1]])
         <=> (\E k \in 1 .. Len(uh) : (uh[k].i1 = i) /\ (uh[k].i2 = j))

\* (i, j), then (j, i), then (i, j) again: true, true, false; the bits of
\* the two pairs lie in different words
C29_Witness ==
  /\ Len(uh) = 3
  /\ uh[1].i1 # uh[1].i2
  /\ uh[2].i1 = uh[1].i2
  /\ uh[2].i2 = uh[1].i1
  /\ uh[3].i1 = uh[1].i1
  /\ uh[3].i2 = uh[1].i2
  /\ <<uh[1].status, uh[2].status, uh[3].status>> = <<1, 1, 0>>
  /\ EdgeBit(uh[1].i1, uh[1].i2)[1] # EdgeBit(uh[2].i1, uh[2].i2)[1]

\* C30: a call of usage_map_edge with i1 = i2 is a fault: it ends in
\* abort(), returns nothing and marks nothing.
C30_Original ==
  \A k \in 1 .. Len(uh) : (uh[k].i1 = uh[k].i2) => uh[k].fault

\* a call with two equal indices of the map has returned true, and the
\* bit i * n + i is set
C30_Witness ==
  /\ Len(uh) > 0
  /\ InRange(1)
  /\ uh[1].i1 = uh[1].i2
  /\ ~uh[1].fault
  /\ uh[1].status = 1
  /\ EdgeBit(uh[1].i1, uh[1].i1)[2] \in um.pEdgeUse[EdgeBit(uh[1].i1, uh[1].i1)[1]]

(***************************************************************************)
(* vertexColor, renderSpan and renderPair by themselves (FillSpec)         *)
(***************************************************************************)
\* clamp(floor(((c + 1) / 2) * 254) + 1, 1, 255) in exact arithmetic, for
\* the attribute c given as a count of 2^-21
ExactChannel(c) ==
  LET g == (((c + AttrOne) * 127) \div AttrOne) + 1
  IN  IF g < 1 THEN 1 ELSE IF g > 255 THEN 255 ELSE g

\* The colour the formula gives for the vertex pv
ExactColor(pv) ==
  IF m_inter = INTER_SCALAR
    THEN <<255, ExactChannel(pv.v), ExactChannel(pv.v), ExactChannel(pv.v)>>
    ELSE <<255, ExactChannel(pv.vx), ExactChannel(pv.vy),
           ExactChannel(pv.vz)>>

\* C26 (as stated): vertexColor returns alpha 0xFF and channels in 1 .. 255,
\* each channel being clamp(floor(((c + 1) / 2) * 254) + 1, 1, 255) for its
\* attribute c; scalar -1, 0 and 1 give gray 1, 128 and 255, and the vector
\* (0, 0, 1) gives (128, 128, 255).
C26_Original ==
  (ren.at = "color") =>
    /\ ren.col[1] = 255
    /\ \A k \in 2 .. 4 : ren.col[k] \in 1 .. 255
    /\ ren.col = ExactColor(ren.pv)
    /\ ((m_inter = INTER_SCALAR) /\ (ren.pv.v = -AttrOne))
         => (ren.col = <<255, 1, 1, 1>>)
    /\ ((m_inter = INTER_SCALAR) /\ (ren.pv.v = 0))
         => (ren.col = <<255, 128, 128, 128>>)
    /\ ((m_inter = INTER_SCALAR) /\ (ren.pv.v = AttrOne))
         => (ren.col = <<255, 255, 255, 255>>)
    /\ ((m_inter = INTER_VECTOR) /\ (ren.pv.vx = 0) /\ (ren.pv.vy = 0)
          /\ (ren.pv.vz = AttrOne))
         => (ren.col = <<255, 128, 128, 255>>)

\* vertexColor was called in scalar mode with v = 16513 * 2^-21, which is
\* below 1 / 127: the formula gives 128, the call returned gray 129
C26_Witness ==
  /\ ren.at = "color"
  /\ m_inter = INTER_SCALAR
  /\ ren.pv.v = 16513
  /\ ExactChannel(ren.pv.v) = 128
  /\ ren.col = <<255, 129, 129, 129>>

\* The row of the buffer a span at height y lies in
SpanRow(y) == ifloor(y)

\* The pixels of the buffer the top-left rule covers for a span from va to
\* vb: those of its row whose centre is at or right of the left end and
\* strictly left of the right end
CoveredBySpan(va, vb) ==
  LET left == IF QLe(va.x, vb.x) THEN va.x ELSE vb.x
      right == IF QLe(va.x, vb.x) THEN vb.x ELSE va.x
      y == SpanRow(va.y)
  IN  IF y \in 0 .. (m_h - 1)
        THEN {PixelAt(x, y, m_w) :
                x \in {c \in 0 .. (m_w - 1) :
                         QLe(left, QCentre(c)) /\ QLt(QCentre(c), right)}}
        ELSE {}

\* The scanlines the top-left rule covers for a pair of edges: those whose
\* centre is at or above the larger of the two lower ends and strictly
\* below the smaller of the two upper ends
CoveredByPair(a1, a2, b1, b2) ==
  LET lo(p, q) == IF QLe(p.y, q.y) THEN p.y ELSE q.y
      hi(p, q) == IF QLe(p.y, q.y) THEN q.y ELSE p.y
      y_min == IF QLt(lo(a1, a2), lo(b1, b2)) THEN lo(b1, b2) ELSE lo(a1, a2)
      y_max == IF QLt(hi(b1, b2), hi(a1, a2)) THEN hi(b1, b2) ELSE hi(a1, a2)
  IN  {y \in 0 .. (m_h - 1) : QLe(y_min, QCentre(y)) /\ QLt(QCentre(y), y_max)}

\* C27: renderPair renders exactly the scanlines y in [0, H) whose centre
\* satisfies y_min <= y + 0.5 < y_max, and renderSpan writes exactly the
\* unmasked columns x in [0, W) whose centre satisfies
\* left.x <= x + 0.5 < right.x: a bound at an integer + 0.5 is included as
\* the start and excluded as the end, and an empty extent renders nothing.
C27_TopLeftRule ==
  /\ ((ren.at = "span") /\ ~ren.err) =>
       (ren.wr = (CoveredBySpan(ren.v1, ren.v2) \ ren.mask))
  /\ ((ren.at = "span") /\ ~ren.err /\ QEq(ren.v1.x, ren.v2.x)) =>
       (ren.wr = {})
  /\ (ren.at = "pair") =>
       /\ ~ren.err
       /\ ren.rows = CoveredByPair(ren.va1, ren.va2, ren.vb1, ren.vb2)
       /\ \A p \in ren.wr : (p \div m_w) \in ren.rows

\* A span from x = 0.5 to x = 2.5 on the first row wrote the pixels of the
\* columns 0 and 1 and no other
C27_Witness ==
  /\ ren.at = "span"
  /\ ~ren.err
  /\ ren.v1.x = Q(1, 2)
  /\ ren.v2.x = Q(5, 2)
  /\ SpanRow(ren.v1.y) = 0
  /\ ren.wr = {PixelAt(0, 0, m_w), PixelAt(1, 0, m_w)}

(***************************************************************************)
(* main of lilacme2png (RenderSpec)                                        *)
(***************************************************************************)
\* The pixels of the buffer that hold the mask value
SentinelPixels == {p \in DOMAIN pBuf : pBuf[p] = Sentinel}

\* C25: while the triangles are rendered, the pixels that hold the mask
\* value 0xFF000000 are exactly those that held it when the buffer was
\* made: no triangle writes a pixel that holds it, and no pixel a triangle
\* wrote holds it.
C25_MaskImmutable ==
  (ren.at # "initbuf") =>
    /\ SentinelPixels = ren.mask
    /\ \A t \in 1 .. Len(ren.wr) :
         /\ (ren.wr[t] \cap ren.mask) = {}
         /\ \A p \in ren.wr[t] : pBuf[p] \notin {Sentinel, ZeroPixel}

\* The image is written, and one of the triangles wrote the pixels left and
\* right of a masked pixel of the same row, which still holds the mask value
C25_Witness ==
  /\ ren.at = "exit"
  /\ \E t \in 1 .. Len(ren.wr) :
       \E p \in ren.mask :
         /\ (p % m_w) \in 1 .. (m_w - 2)
         /\ (p - 1) \in ren.wr[t]
         /\ (p + 1) \in ren.wr[t]
         /\ pBuf[p] = Sentinel

\* The vertex indices of the triangle rendered as the t-th
TriIndices(t) ==
  {pM.pTris[(t - 1) * 3], pM.pTris[((t - 1) * 3) + 1],
   pM.pTris[((t - 1) * 3) + 2]}

\* Twice the converted coordinates of vertex i: <<2x, 2y>>, odd integers
Twice(i) ==
  <<(2 * pva[i + 1].x.n) \div pva[i + 1].x.d,
    (2 * pva[i + 1].y.n) \div pva[i + 1].y.d>>

\* Twice the centre of pixel p
TwiceCentre(p) == <<(2 * (p % m_w)) + 1, (2 * (p \div m_w)) + 1>>

\* > 0: c is left of the line from a to b, < 0: right of it, 0: on it
Side(a, b, c) ==
  ((b[1] - a[1]) * (c[2] - a[2])) - ((b[2] - a[2]) * (c[1] - a[1]))

\* c lies strictly inside the triangle of the vertex indices in tri
StrictlyInside(c, tri) ==
  \E i \in tri : \E j \in tri \ {i} : \E k \in tri \ {i, j} :
    /\ Side(Twice(i), Twice(j), c) > 0
    /\ Side(Twice(j), Twice(k), c) > 0
    /\ Side(Twice(k), Twice(i), c) > 0

\* c lies on the segment from vertex u to vertex w, and is neither end
OnOpenSegment(c, u, w) ==
  /\ Side(Twice(u), Twice(w), c) = 0
  /\ (((c[1] - Twice(u)[1]) * (Twice(w)[1] - Twice(u)[1]))
        + ((c[2] - Twice(u)[2]) * (Twice(w)[2] - Twice(u)[2]))) > 0
  /\ (((c[1] - Twice(w)[1]) * (Twice(u)[1] - Twice(w)[1]))
        + ((c[2] - Twice(w)[2]) * (Twice(u)[2] - Twice(w)[2]))) > 0

\* The triangles s and t share the edge of the vertices u and w, and their
\* third vertices are strictly on opposite sides of it in the image
SharedOpposite(s, t, u, w) ==
  /\ u # w
  /\ (TriIndices(s) \cap TriIndices(t)) = {u, w}
  /\ \E a \in TriIndices(s) \ {u, w} : \E b \in TriIndices(t) \ {u, w} :
       (Side(Twice(u), Twice(w), Twice(a))
          * Side(Twice(u), Twice(w), Twice(b))) < 0

\* The centre of pixel p is strictly inside the union of s and t
InsideUnion(p, s, t, u, w) ==
  \/ StrictlyInside(TwiceCentre(p), TriIndices(s))
  \/ StrictlyInside(TwiceCentre(p), TriIndices(t))
  \/ OnOpenSegment(TwiceCentre(p), u, w)

\* C28: for two rendered triangles that share an edge and lie on opposite
\* sides of it, no pixel is written by both, and every unmasked pixel whose
\* centre is strictly inside the union of the two is written by one of
\* them.
C28_Watertight ==
  (ren.at \in {"render", "write"}) =>
    \A s \in 1 .. Len(ren.wr) : \A t \in (s + 1) .. Len(ren.wr) :
      \A u \in TriIndices(s) : \A w \in TriIndices(s) :
        SharedOpposite(s, t, u, w) =>
          /\ (ren.wr[s] \cap ren.wr[t]) = {}
          /\ \A p \in DOMAIN pBuf \ ren.mask :
               InsideUnion(p, s, t, u, w) =>
                 (p \in (ren.wr[s] \cup ren.wr[t]))

\* Both triangles of a quad are rendered, their shared edge is neither
\* horizontal nor vertical and passes through the centre of an unmasked
\* pixel, and that pixel is written by one of the two
C28_Witness ==
  /\ ren.at = "write"
  /\ Len(ren.wr) = 2
  /\ \E u \in TriIndices(1) : \E w \in TriIndices(1) :
       /\ SharedOpposite(1, 2, u, w)
       /\ Twice(u)[1] # Twice(w)[1]
       /\ Twice(u)[2] # Twice(w)[2]
       /\ \E p \in DOMAIN pBuf \ ren.mask :
            /\ OnOpenSegment(TwiceCentre(p), u, w)
            /\ p \in (ren.wr[1] \cup ren.wr[2])
            /\ p \notin (ren.wr[1] \cap ren.wr[2])

(***************************************************************************)
(* usage_map_point and usage_map_orphan by themselves (SweepSpec)          *)
(***************************************************************************)
\* The map m with every unused bit of its last word set
TailSet(m) ==
  IF (m.point_count % 32) = 0
    THEN m
    ELSE [m EXCEPT !.pPointUse[m.point_count \div 32] =
                     @ \cup LowMask(32 - (m.point_count % 32))]

\* C31: after any sequence of calls of usage_map_point on a map for n
\* points, usage_map_orphan returns nonzero exactly if some index in [0, n)
\* was given to none of them; the unused bits of the last word do not
\* change the result; and a call with an index that was given before
\* leaves the map as it is.
C31_OrphanOfMarks ==
  ((uh = <<>>) \/ ~uh[1].fault) =>
    /\ (usage_map_orphan(um) # 0)
         <=> (\E i \in 0 .. (um.point_count - 1) : i \notin Marked)
    /\ usage_map_orphan(TailSet(um)) = usage_map_orphan(um)
    /\ (IF uh = <<>> THEN FALSE ELSE uh[1].was) => (um = uh[1].before)

\* Every index of a map for 33 points is marked, the last call marked an
\* index again, and usage_map_orphan returns 0 although 31 bits of the last
\* word are clear
C31_Witness ==
  /\ um.point_count = 33
  /\ Marked = 0 .. 32
  /\ uh[1].was
  /\ ~uh[1].fault
  /\ usage_map_orphan(um) = 0
  /\ BitNot(um.pPointUse[1]) = LowMask(31)

(***************************************************************************)
(* What a refused triangle leaves behind                                   *)
(***************************************************************************)
\* The bits that are set in the edge words of the usage map m, each as
\* <<word, bit>>
EdgeBitsSet(m) ==
  UNION {{<<w, b>> : b \in m.pEdgeUse[w]} : w \in DOMAIN m.pEdgeUse}

\* The word and the bit of the directed edge e in the usage map m
EdgeBitIn(m, e) ==
  LET ix == (e[1] * m.point_count) + e[2]
  IN  <<ix \div 32, 31 - (ix % 32)>>

\* The edges of the triangle a in the order op_t consumes them
EdgeOrder(a) == <<<<a[1], a[2]>>, <<a[2], a[3]>>, <<a[3], a[1]>>>>

\* The edges of the triangle a that op_t consumes on the map m before it
\* meets one that is marked
ConsumedEdges(m, a) ==
  {EdgeOrder(a)[k] : k \in {j \in 1 .. 3 :
     \A i \in 1 .. j : EdgeBitIn(m, EdgeOrder(a)[i]) \notin EdgeBitsSet(m)}}

\* The last call was one of op_t that returned zero
TriCallRefused ==
  /\ call.op = "t"
  /\ ~call.res.fault
  /\ call.res.status = 0

\* C32: a call of op_t that fails with PTREF, VXDUP, VXORD, ORIENT, TRSORT
\* or TROVER leaves both bitmaps of the usage map, the triangle array and
\* the count of triangles written as they were; one that fails with DUPEDG
\* leaves the triangle array, the count and the point bitmap as they were
\* and sets the edge bits of the edges consumed before the duplicate one,
\* and no other.
C32_RefusedTriFrame ==
  TriCallRefused =>
    /\ call.res.M = call.M
    /\ call.res.written = call.tw
    /\ tris_written = call.tw
    /\ call.res.um.pPointUse = call.um.pPointUse
    /\ call.res.um.point_count = call.um.point_count
    /\ call.res.err \in
         {LILAC_MESH_ERR_PTREF, LILAC_MESH_ERR_VXDUP, LILAC_MESH_ERR_VXORD,
          LILAC_MESH_ERR_ORIENT, LILAC_MESH_ERR_TRSORT, LILAC_MESH_ERR_TROVER,
          LILAC_MESH_ERR_DUPEDG}
    /\ IF call.res.err # LILAC_MESH_ERR_DUPEDG
         THEN call.res.um = call.um
         ELSE EdgeBitsSet(call.res.um) =
                (EdgeBitsSet(call.um)
                   \cup {EdgeBitIn(call.um, e) :
                           e \in ConsumedEdges(call.um, call.args)})

\* op_t failed with DUPEDG after it had consumed an edge: the usage map it
\* left has an edge bit more than before, the mesh has no triangle more
C32_Witness ==
  /\ TriCallRefused
  /\ call.res.err = LILAC_MESH_ERR_DUPEDG
  /\ ConsumedEdges(call.um, call.args) # {}
  /\ EdgeBitsSet(call.res.um) # EdgeBitsSet(call.um)
  /\ call.res.M = call.M

(***************************************************************************)
(* The reads of the loader                                                 *)
(***************************************************************************)
\* lilac_mesh_new reads no more: it has returned, or ended in abort()
Stopped == pc \in {"done", "exit", "aborted"}

\* The last read returned the end of the input
EofRead == (rd.at # "none") /\ (rd.ent.status = SNENTITY.EOF)

\* C33: every step of the loader reads one entity, the next one of the
\* input, and the entities of the header are taken in the order they are
\* read; once a read or an operation has failed, or the end of the input
\* has been read, the loader has stopped, and from then on no entity is
\* read and no point and no triangle is appended.
C33_ReadsOnceThenStops ==
  /\ []((status = 0) \/ EofRead => Stopped)
  /\ [][IF Stopped
          THEN /\ rd' = rd
               /\ hdr' = hdr
               /\ src' = src
               /\ lineno' = lineno
               /\ points_written' = points_written
               /\ tris_written' = tris_written
               /\ pM' = pM
          ELSE /\ rd'.at = pc
               /\ hdr' = IF pc = "body" THEN hdr ELSE Append(hdr, rd'.ent)
               /\ points_written' \in {points_written, points_written + 1}
               /\ tris_written' \in {tris_written, tris_written + 1}]_vars

\* The loader failed after it had appended a point, and the step after its
\* return was taken: nothing more was read
C33_Witness ==
  /\ pc = "exit"
  /\ status = 0
  /\ points_written > 0
  /\ rd.at = "body"
  /\ rd.ent.status > 0


\* The three edges of the triangle of a call of renderTri, in the order
\* (v1, v2), (v2, v3), (v3, v1)
TriCallEdges == <<<<ren.v1, ren.v2>>, <<ren.v2, ren.v3>>, <<ren.v3, ren.v1>>>>

\* The first edge, in that order, whose |dy| no other edge exceeds
GreatestDy ==
  CHOOSE k \in 1 .. 3 :
    /\ \A j \in 1 .. 3 :
         QLe(YExtent(TriCallEdges[j][1], TriCallEdges[j][2]),
             YExtent(TriCallEdges[k][1], TriCallEdges[k][2]))
    /\ \A j \in 1 .. (k - 1) :
         QLt(YExtent(TriCallEdges[j][1], TriCallEdges[j][2]),
             YExtent(TriCallEdges[k][1], TriCallEdges[k][2]))

\* C34: renderTri takes as the long edge the edge of greatest |dy| among
\* (v1, v2), (v2, v3), (v3, v1), the first of them on a tie, and calls
\* renderPair exactly twice, once with the long edge and each of the two
\* other edges; the two calls render disjoint sets of scanlines.
C34_LongEdgePairs ==
  (ren.at = "tri") =>
    /\ Len(ren.calls) = 2
    /\ \A c \in 1 .. 2 :
         <<ren.calls[c].a1, ren.calls[c].a2>> = TriCallEdges[GreatestDy]
    /\ \E j \in (1 .. 3) \ {GreatestDy}, k \in (1 .. 3) \ {GreatestDy} :
         /\ j # k
         /\ <<ren.calls[1].b1, ren.calls[1].b2>> = TriCallEdges[j]
         /\ <<ren.calls[2].b1, ren.calls[2].b2>> = TriCallEdges[k]
    /\ ren.calls[1].rows \cap ren.calls[2].rows = {}

\* A triangle whose first two edges tie for the greatest |dy| while the
\* third is shorter, and whose first call of renderPair rendered scanlines
C34_Witness ==
  /\ ren.at = "tri"
  /\ QEq(YExtent(ren.v1, ren.v2), YExtent(ren.v2, ren.v3))
  /\ QLt(YExtent(ren.v3, ren.v1), YExtent(ren.v1, ren.v2))
  /\ GreatestDy = 1
  /\ Len(ren.calls) = 2
  /\ ren.calls[1].rows \cup ren.calls[2].rows # {}
  /\ ren.wr # {}


\* floor(a / b) of the integers a >= 0 and b > 0
FloorDiv(a, b) == CHOOSE k \in 0 .. a : ((k * b) <= a) /\ (a < ((k + 1) * b))

\* C35: convertVertex puts the mesh point (x, y) at
\* (floor(x * (W - 1) / C_MAX) + 0.5, floor((C_MAX - y) * (H - 1) / C_MAX)
\* + 0.5); y = 0 goes to the bottom row H - 1 and y = C_MAX to row 0, and
\* the position is a pixel centre within [0.5, W - 0.5] x [0.5, H - 0.5].
C35_PixelCentres ==
  (ren.at = "convert") =>
    LET col == FloorDiv(ren.pp.x * (m_w - 1), LILAC_MESH_MAX_C)
        row == FloorDiv((LILAC_MESH_MAX_C - ren.pp.y) * (m_h - 1),
                        LILAC_MESH_MAX_C)
    IN  /\ ren.pv.x = [n |-> (2 * col) + 1, d |-> 2]
        /\ ren.pv.y = [n |-> (2 * row) + 1, d |-> 2]
        /\ (ren.pp.y = 0) => (row = m_h - 1)
        /\ (ren.pp.y = LILAC_MESH_MAX_C) => (row = 0)
        /\ col \in 0 .. (m_w - 1)
        /\ row \in 0 .. (m_h - 1)

\* A point whose x * (W - 1) / C_MAX and (C_MAX - y) * (H - 1) / C_MAX are
\* not whole, converted for a buffer wider than high
C35_Witness ==
  /\ ren.at = "convert"
  /\ m_w = 4
  /\ m_h = 3
  /\ ren.pp.x = 5461
  /\ ren.pp.y = 8191
  /\ ren.pv.x = [n |-> 1, d |-> 2]
  /\ ren.pv.y = [n |-> 3, d |-> 2]


\* The last call of op_t went on to its calls of usage_map_edge
EdgesCalled ==
  /\ call.op = "t"
  /\ (call.res.status # 0) \/ (call.res.err = LILAC_MESH_ERR_DUPEDG)

\* C36: the loader never ends in abort(): op_p and op_t get arguments in
\* [0, LILAC_MESH_MAX_C], usage_map_point and usage_map_edge get indices in
\* [0, point_count), and usage_map_edge never gets two equal indices.
C36_NoAbort ==
  /\ pc # "aborted"
  /\ (call.op \in {"p", "t"}) =>
       /\ ~call.res.fault
       /\ \A k \in 1 .. Len(call.args) :
            (call.args[k] >= 0) /\ (call.args[k] <= LILAC_MESH_MAX_C)
  /\ EdgesCalled =>
       /\ \A k \in 1 .. 3 :
            (call.args[k] >= 0) /\ (call.args[k] < call.um.point_count)
       /\ call.args[1] # call.args[2]
       /\ call.args[2] # call.args[3]
       /\ call.args[3] # call.args[1]

\* A mesh is returned after a triangle of three points, one of them with a
\* coordinate at the maximum, went through the usage map
C36_Witness ==
  /\ pc = "done"
  /\ status # 0
  /\ EdgesCalled
  /\ call.res.status # 0
  /\ tris_written = 1
  /\ \E k \in 0 .. (points_written - 1) :
       pM.pPoints[k].x = LILAC_MESH_MAX_C


\* The last call of op_t went on to its orientation test, which reads the
\* three points
OrientationRead ==
  /\ call.op = "t"
  /\ ~call.res.fault
  /\ call.res.err \notin {LILAC_MESH_ERR_PTREF, LILAC_MESH_ERR_VXDUP,
                          LILAC_MESH_ERR_VXORD}

\* C37: 0 <= points_written <= point_count <= 1024 and 0 <= tris_written <=
\* tri_count <= 1024 in every state of the loader; a point or a triangle is
\* written only at an index below the declared count, and the orientation
\* test reads only points already written.
C37_CountsAndWrites ==
  /\ (0 <= points_written) /\ (points_written <= point_count)
  /\ point_count <= LILAC_MESH_MAX_POINTS
  /\ (0 <= tris_written) /\ (tris_written <= tri_count)
  /\ tri_count <= LILAC_MESH_MAX_TRIS
  /\ pM.alloc => (pM.point_count = point_count) /\ (pM.tri_count = tri_count)
  /\ ((call.op = "p") /\ (call.res.status # 0)) =>
       /\ call.pw < call.M.point_count
       /\ call.pw \in DOMAIN call.M.pPoints
  /\ ((call.op = "t") /\ (call.res.status # 0)) =>
       /\ call.tw < call.M.tri_count
       /\ \A k \in 0 .. 2 : ((call.tw * 3) + k) \in DOMAIN call.M.pTris
  /\ OrientationRead => \A k \in 1 .. 3 : call.args[k] < call.pw

\* Every declared point and triangle is written, the last triangle at the
\* last index, and a further point was refused for want of room
C37_Witness ==
  /\ pc = "done"
  /\ point_count > 0
  /\ points_written = point_count
  /\ tri_count > 1
  /\ tris_written = tri_count
  /\ call.op = "p"
  /\ call.res.err = LILAC_MESH_ERR_PTOVER


\* lilac_mesh_new has returned a mesh
MeshLoaded == (pc = "done") /\ (status # 0) /\ pM.alloc

\* C38: a loaded mesh has no points if and only if it has no triangles, and
\* otherwise 3 <= point_count <= 3 * tri_count; a header with points and no
\* triangles, or triangles and no points, never loads.
C38_LoadedCounts ==
  /\ MeshLoaded =>
       /\ (pM.point_count = 0) <=> (pM.tri_count = 0)
       /\ (pM.point_count # 0) =>
            /\ 3 <= pM.point_count
            /\ pM.point_count <= (3 * pM.tri_count)
  /\ ((pc = "done") /\ (point_count > 0) /\ (tri_count = 0)) => (status = 0)
  /\ ((pc = "done") /\ (point_count = 0) /\ (tri_count > 0)) => (status = 0)

\* A mesh of one triangle is loaded: point_count is at both of its limits
C38_Witness ==
  /\ MeshLoaded
  /\ pM.point_count = 3
  /\ pM.tri_count = 1
  /\ points_written = 3
  /\ tris_written = 1


\* C39: rendering a triangle of converted vertices never raises the
\* out-of-range fault of the interpolator: the scanline centres given to
\* ivec_atY lie within the Y extent of both edges, the pixel centres given
\* to ivec_atX within the X extent of the span, the two vertices of a span
\* have equal y, and every write is at an index inside the buffer.
C39_NoRangeFault ==
  /\ ren.at # "error"
  /\ (ren.at \in {"render", "write"}) =>
       \A i \in 1 .. Len(ren.wr) :
         \A p \in ren.wr[i] : (0 <= p) /\ (p < (m_w * m_h))

\* Both triangles of a mesh are drawn with interpolated vectors, each
\* writing pixels of more than one scanline
C39_Witness ==
  /\ ren.at = "write"
  /\ m_inter = INTER_VECTOR
  /\ Len(ren.wr) = 2
  /\ \A i \in 1 .. 2 :
       \E p \in ren.wr[i], q \in ren.wr[i] : (p \div m_w) # (q \div m_w)


\* The pixels of the last column and of the last row of the buffer
LastColumnAndRow ==
  {p \in DOMAIN pBuf : ((p % m_w) = (m_w - 1)) \/ ((p \div m_w) = (m_h - 1))}

\* C40: the rasterizer never writes a pixel of the last column x = W - 1 or
\* of the last row y = H - 1, so these pixels keep the value the buffer
\* started with (zero, or the mask value), and a buffer of one column or one
\* row gets no write at all.
C40_LastColumnRowUntouched ==
  (ren.at \in {"convert", "render", "write"}) =>
    /\ \A i \in 1 .. Len(ren.wr) : (ren.wr[i] \cap LastColumnAndRow) = {}
    /\ \A p \in LastColumnAndRow :
         pBuf[p] = IF p \in ren.mask THEN Sentinel ELSE ZeroPixel
    /\ ((m_w = 1) \/ (m_h = 1)) =>
         /\ \A i \in 1 .. Len(ren.wr) : ren.wr[i] = {}
         /\ pBuf = NewBuffer(m_w, m_h, {})

\* The square from corner to corner is drawn on the buffer of RenderW *
\* RenderH pixels: the last but one column and row are written
C40_Witness ==
  /\ ren.at = "write"
  /\ m_w = RenderW
  /\ m_h = RenderH
  /\ ren.mask = {}
  /\ \E i \in 1 .. Len(ren.wr) : PixelAt(m_w - 2, 0, m_w) \in ren.wr[i]
  /\ \E i \in 1 .. Len(ren.wr) : PixelAt(0, m_h - 2, m_w) \in ren.wr[i]
  /\ \A p \in LastColumnAndRow : pBuf[p] = ZeroPixel

====
